---- MODULE Spec2Model ----
(***************************************************************************)
(* Argument processing and interactive prompting of discord-akairo         *)
(* (src/struct/commands/arguments/Argument.js).                            *)
(*                                                                         *)
(* A text is a sequence of one-character strings, so that trimming and     *)
(* lower-casing are computed and not assumed.  A value is a tagged record: *)
(* Null (null/undefined), a number, a string, a list, or a ParsingFlag.    *)
(***************************************************************************)
EXTENDS Integers, Sequences, FiniteSets, TLC

\* ------------------------------------------------------------------ bounds
\* Largest number of replies a user posts into one prompt session.
MaxReplies == 3
\* Largest `retries` an argument prompt configures.
MaxRetries == 2
\* Largest finite `limit` an infinite prompt configures.
MaxLimit == 2
\* Largest number of types in a union and of entries in an enumeration.
MaxTypes == 2
\* Largest `min` and `max` of a range.
MaxBound == 3
\* The most bits set in a number resolvePermissionNumber is called with (the
\* number with all of them set apart)
MaxSetBits == 2
\* Largest number of casts one type is used for.
MaxCalls == 2

\* ------------------------------------------------------------------ texts
\* A text is a sequence of characters, the UTF-16 code units of a string that
\* has no surrogates.  A character is a string: the character itself where a
\* string of this module can hold it (tab, line feed, form feed, carriage
\* return, U+0020..U+007E but the grave accent, and from U+00A0 on the
\* characters whose code ends in 80..FF hexadecimal), and its code otherwise
\* ("U+0253").  The characters U+0000..U+007F:
BasicLatin ==
    {
     "U+0000", "U+0001", "U+0002", "U+0003", "U+0004", "U+0005", "U+0006", "U+0007", "U+0008", "\t", "\n", "U+000B",
     "\f", "\r", "U+000E", "U+000F", "U+0010", "U+0011", "U+0012", "U+0013", "U+0014", "U+0015", "U+0016", "U+0017",
     "U+0018", "U+0019", "U+001A", "U+001B", "U+001C", "U+001D", "U+001E", "U+001F", " ", "!", "\"", "#",
     "$", "%", "&", "'", "(", ")", "*", "+", ",", "-", ".", "/",
     "0", "1", "2", "3", "4", "5", "6", "7", "8", "9", ":", ";",
     "<", "=", ">", "?", "@", "A", "B", "C", "D", "E", "F", "G",
     "H", "I", "J", "K", "L", "M", "N", "O", "P", "Q", "R", "S",
     "T", "U", "V", "W", "X", "Y", "Z", "[", "\\", "]", "^", "_",
     "U+0060", "a", "b", "c", "d", "e", "f", "g", "h", "i", "j", "k",
     "l", "m", "n", "o", "p", "q", "r", "s", "t", "u", "v", "w",
     "x", "y", "z", "{", "|", "}", "~", "U+007F"}

\* The capital letters with the small letters toLowerCase gives for them
\* (Lowercase_Mapping of the Unicode standard, version 17): those of
\* BasicLatin, and the others.  The capital sigma, whose small letter
\* depends on its place, and the capital I with dot above, whose small letter
\* is two characters, are not among them.
LatinPairs ==
    {
     <<"A", "a">>, <<"B", "b">>, <<"C", "c">>, <<"D", "d">>, <<"E", "e">>, <<"F", "f">>, <<"G", "g">>, <<"H", "h">>,
     <<"I", "i">>, <<"J", "j">>, <<"K", "k">>, <<"L", "l">>, <<"M", "m">>, <<"N", "n">>, <<"O", "o">>, <<"P", "p">>,
     <<"Q", "q">>, <<"R", "r">>, <<"S", "s">>, <<"T", "t">>, <<"U", "u">>, <<"V", "v">>, <<"W", "w">>, <<"X", "x">>,
     <<"Y", "y">>, <<"Z", "z">>}

CasePairs ==
    {
     <<"À", "à">>, <<"Á", "á">>, <<"Â", "â">>, <<"Ã", "ã">>, <<"Ä", "ä">>, <<"Å", "å">>,
     <<"Æ", "æ">>, <<"Ç", "ç">>, <<"È", "è">>, <<"É", "é">>, <<"Ê", "ê">>, <<"Ë", "ë">>,
     <<"Ì", "ì">>, <<"Í", "í">>, <<"Î", "î">>, <<"Ï", "ï">>, <<"Ð", "ð">>, <<"Ñ", "ñ">>,
     <<"Ò", "ò">>, <<"Ó", "ó">>, <<"Ô", "ô">>, <<"Õ", "õ">>, <<"Ö", "ö">>, <<"Ø", "ø">>,
     <<"Ù", "ù">>, <<"Ú", "ú">>, <<"Û", "û">>, <<"Ü", "ü">>, <<"Ý", "ý">>, <<"Þ", "þ">>,
     <<"U+0100", "U+0101">>, <<"U+0102", "U+0103">>, <<"U+0104", "U+0105">>, <<"U+0106", "U+0107">>, <<"U+0108", "U+0109">>, <<"U+010A", "U+010B">>,
     <<"U+010C", "U+010D">>, <<"U+010E", "U+010F">>, <<"U+0110", "U+0111">>, <<"U+0112", "U+0113">>, <<"U+0114", "U+0115">>, <<"U+0116", "U+0117">>,
     <<"U+0118", "U+0119">>, <<"U+011A", "U+011B">>, <<"U+011C", "U+011D">>, <<"U+011E", "U+011F">>, <<"U+0120", "U+0121">>, <<"U+0122", "U+0123">>,
     <<"U+0124", "U+0125">>, <<"U+0126", "U+0127">>, <<"U+0128", "U+0129">>, <<"U+012A", "U+012B">>, <<"U+012C", "U+012D">>, <<"U+012E", "U+012F">>,
     <<"U+0132", "U+0133">>, <<"U+0134", "U+0135">>, <<"U+0136", "U+0137">>, <<"U+0139", "U+013A">>, <<"U+013B", "U+013C">>, <<"U+013D", "U+013E">>,
     <<"U+013F", "U+0140">>, <<"U+0141", "U+0142">>, <<"U+0143", "U+0144">>, <<"U+0145", "U+0146">>, <<"U+0147", "U+0148">>, <<"U+014A", "U+014B">>,
     <<"U+014C", "U+014D">>, <<"U+014E", "U+014F">>, <<"U+0150", "U+0151">>, <<"U+0152", "U+0153">>, <<"U+0154", "U+0155">>, <<"U+0156", "U+0157">>,
     <<"U+0158", "U+0159">>, <<"U+015A", "U+015B">>, <<"U+015C", "U+015D">>, <<"U+015E", "U+015F">>, <<"U+0160", "U+0161">>, <<"U+0162", "U+0163">>,
     <<"U+0164", "U+0165">>, <<"U+0166", "U+0167">>, <<"U+0168", "U+0169">>, <<"U+016A", "U+016B">>, <<"U+016C", "U+016D">>, <<"U+016E", "U+016F">>,
     <<"U+0170", "U+0171">>, <<"U+0172", "U+0173">>, <<"U+0174", "U+0175">>, <<"U+0176", "U+0177">>, <<"U+0178", "ÿ">>, <<"U+0179", "U+017A">>,
     <<"U+017B", "U+017C">>, <<"U+017D", "U+017E">>, <<"Ɓ", "U+0253">>, <<"Ƃ", "ƃ">>, <<"Ƅ", "ƅ">>, <<"Ɔ", "U+0254">>,
     <<"Ƈ", "ƈ">>, <<"Ɖ", "U+0256">>, <<"Ɗ", "U+0257">>, <<"Ƌ", "ƌ">>, <<"Ǝ", "ǝ">>, <<"Ə", "U+0259">>,
     <<"Ɛ", "U+025B">>, <<"Ƒ", "ƒ">>, <<"Ɠ", "U+0260">>, <<"Ɣ", "U+0263">>, <<"Ɩ", "U+0269">>, <<"Ɨ", "U+0268">>,
     <<"Ƙ", "ƙ">>, <<"Ɯ", "U+026F">>, <<"Ɲ", "U+0272">>, <<"Ɵ", "U+0275">>, <<"Ơ", "ơ">>, <<"Ƣ", "ƣ">>,
     <<"Ƥ", "ƥ">>, <<"Ʀ", "ʀ">>, <<"Ƨ", "ƨ">>, <<"Ʃ", "ʃ">>, <<"Ƭ", "ƭ">>, <<"Ʈ", "ʈ">>,
     <<"Ư", "ư">>, <<"Ʊ", "ʊ">>, <<"Ʋ", "ʋ">>, <<"Ƴ", "ƴ">>, <<"Ƶ", "ƶ">>, <<"Ʒ", "ʒ">>,
     <<"Ƹ", "ƹ">>, <<"Ƽ", "ƽ">>, <<"Ǆ", "ǆ">>, <<"ǅ", "ǆ">>, <<"Ǉ", "ǉ">>, <<"ǈ", "ǉ">>,
     <<"Ǌ", "ǌ">>, <<"ǋ", "ǌ">>, <<"Ǎ", "ǎ">>, <<"Ǐ", "ǐ">>, <<"Ǒ", "ǒ">>, <<"Ǔ", "ǔ">>,
     <<"Ǖ", "ǖ">>, <<"Ǘ", "ǘ">>, <<"Ǚ", "ǚ">>, <<"Ǜ", "ǜ">>, <<"Ǟ", "ǟ">>, <<"Ǡ", "ǡ">>,
     <<"Ǣ", "ǣ">>, <<"Ǥ", "ǥ">>, <<"Ǧ", "ǧ">>, <<"Ǩ", "ǩ">>, <<"Ǫ", "ǫ">>, <<"Ǭ", "ǭ">>,
     <<"Ǯ", "ǯ">>, <<"Ǳ", "ǳ">>, <<"ǲ", "ǳ">>, <<"Ǵ", "ǵ">>, <<"Ƕ", "ƕ">>, <<"Ƿ", "ƿ">>,
     <<"Ǹ", "ǹ">>, <<"Ǻ", "ǻ">>, <<"Ǽ", "ǽ">>, <<"Ǿ", "ǿ">>, <<"U+0200", "U+0201">>, <<"U+0202", "U+0203">>,
     <<"U+0204", "U+0205">>, <<"U+0206", "U+0207">>, <<"U+0208", "U+0209">>, <<"U+020A", "U+020B">>, <<"U+020C", "U+020D">>, <<"U+020E", "U+020F">>,
     <<"U+0210", "U+0211">>, <<"U+0212", "U+0213">>, <<"U+0214", "U+0215">>, <<"U+0216", "U+0217">>, <<"U+0218", "U+0219">>, <<"U+021A", "U+021B">>,
     <<"U+021C", "U+021D">>, <<"U+021E", "U+021F">>, <<"U+0220", "ƞ">>, <<"U+0222", "U+0223">>, <<"U+0224", "U+0225">>, <<"U+0226", "U+0227">>,
     <<"U+0228", "U+0229">>, <<"U+022A", "U+022B">>, <<"U+022C", "U+022D">>, <<"U+022E", "U+022F">>, <<"U+0230", "U+0231">>, <<"U+0232", "U+0233">>,
     <<"U+023A", "U+2C65">>, <<"U+023B", "U+023C">>, <<"U+023D", "ƚ">>, <<"U+023E", "U+2C66">>, <<"U+0241", "U+0242">>, <<"U+0243", "ƀ">>,
     <<"U+0244", "ʉ">>, <<"U+0245", "ʌ">>, <<"U+0246", "U+0247">>, <<"U+0248", "U+0249">>, <<"U+024A", "U+024B">>, <<"U+024C", "U+024D">>,
     <<"U+024E", "U+024F">>, <<"U+0370", "U+0371">>, <<"U+0372", "U+0373">>, <<"U+0376", "U+0377">>, <<"U+037F", "ϳ">>, <<"Ά", "ά">>,
     <<"Έ", "έ">>, <<"Ή", "ή">>, <<"Ί", "ί">>, <<"Ό", "ό">>, <<"Ύ", "ύ">>, <<"Ώ", "ώ">>,
     <<"Α", "α">>, <<"Β", "β">>, <<"Γ", "γ">>, <<"Δ", "δ">>, <<"Ε", "ε">>, <<"Ζ", "ζ">>,
     <<"Η", "η">>, <<"Θ", "θ">>, <<"Ι", "ι">>, <<"Κ", "κ">>, <<"Λ", "λ">>, <<"Μ", "μ">>,
     <<"Ν", "ν">>, <<"Ξ", "ξ">>, <<"Ο", "ο">>, <<"Π", "π">>, <<"Ρ", "ρ">>, <<"Τ", "τ">>,
     <<"Υ", "υ">>, <<"Φ", "φ">>, <<"Χ", "χ">>, <<"Ψ", "ψ">>, <<"Ω", "ω">>, <<"Ϊ", "ϊ">>,
     <<"Ϋ", "ϋ">>, <<"Ϗ", "ϗ">>, <<"Ϙ", "ϙ">>, <<"Ϛ", "ϛ">>, <<"Ϝ", "ϝ">>, <<"Ϟ", "ϟ">>,
     <<"Ϡ", "ϡ">>, <<"Ϣ", "ϣ">>, <<"Ϥ", "ϥ">>, <<"Ϧ", "ϧ">>, <<"Ϩ", "ϩ">>, <<"Ϫ", "ϫ">>,
     <<"Ϭ", "ϭ">>, <<"Ϯ", "ϯ">>, <<"ϴ", "θ">>, <<"Ϸ", "ϸ">>, <<"Ϲ", "ϲ">>, <<"Ϻ", "ϻ">>,
     <<"Ͻ", "U+037B">>, <<"Ͼ", "U+037C">>, <<"Ͽ", "U+037D">>, <<"U+0400", "U+0450">>, <<"U+0401", "U+0451">>, <<"U+0402", "U+0452">>,
     <<"U+0403", "U+0453">>, <<"U+0404", "U+0454">>, <<"U+0405", "U+0455">>, <<"U+0406", "U+0456">>, <<"U+0407", "U+0457">>, <<"U+0408", "U+0458">>,
     <<"U+0409", "U+0459">>, <<"U+040A", "U+045A">>, <<"U+040B", "U+045B">>, <<"U+040C", "U+045C">>, <<"U+040D", "U+045D">>, <<"U+040E", "U+045E">>,
     <<"U+040F", "U+045F">>, <<"U+0410", "U+0430">>, <<"U+0411", "U+0431">>, <<"U+0412", "U+0432">>, <<"U+0413", "U+0433">>, <<"U+0414", "U+0434">>,
     <<"U+0415", "U+0435">>, <<"U+0416", "U+0436">>, <<"U+0417", "U+0437">>, <<"U+0418", "U+0438">>, <<"U+0419", "U+0439">>, <<"U+041A", "U+043A">>,
     <<"U+041B", "U+043B">>, <<"U+041C", "U+043C">>, <<"U+041D", "U+043D">>, <<"U+041E", "U+043E">>, <<"U+041F", "U+043F">>, <<"U+0420", "U+0440">>,
     <<"U+0421", "U+0441">>, <<"U+0422", "U+0442">>, <<"U+0423", "U+0443">>, <<"U+0424", "U+0444">>, <<"U+0425", "U+0445">>, <<"U+0426", "U+0446">>,
     <<"U+0427", "U+0447">>, <<"U+0428", "U+0448">>, <<"U+0429", "U+0449">>, <<"U+042A", "U+044A">>, <<"U+042B", "U+044B">>, <<"U+042C", "U+044C">>,
     <<"U+042D", "U+044D">>, <<"U+042E", "U+044E">>, <<"U+042F", "U+044F">>, <<"U+0460", "U+0461">>, <<"U+0462", "U+0463">>, <<"U+0464", "U+0465">>,
     <<"U+0466", "U+0467">>, <<"U+0468", "U+0469">>, <<"U+046A", "U+046B">>, <<"U+046C", "U+046D">>, <<"U+046E", "U+046F">>, <<"U+0470", "U+0471">>,
     <<"U+0472", "U+0473">>, <<"U+0474", "U+0475">>, <<"U+0476", "U+0477">>, <<"U+0478", "U+0479">>, <<"U+047A", "U+047B">>, <<"U+047C", "U+047D">>,
     <<"U+047E", "U+047F">>, <<"Ҁ", "ҁ">>, <<"Ҋ", "ҋ">>, <<"Ҍ", "ҍ">>, <<"Ҏ", "ҏ">>, <<"Ґ", "ґ">>,
     <<"Ғ", "ғ">>, <<"Ҕ", "ҕ">>, <<"Җ", "җ">>, <<"Ҙ", "ҙ">>, <<"Қ", "қ">>, <<"Ҝ", "ҝ">>,
     <<"Ҟ", "ҟ">>, <<"Ҡ", "ҡ">>, <<"Ң", "ң">>, <<"Ҥ", "ҥ">>, <<"Ҧ", "ҧ">>, <<"Ҩ", "ҩ">>,
     <<"Ҫ", "ҫ">>, <<"Ҭ", "ҭ">>, <<"Ү", "ү">>, <<"Ұ", "ұ">>, <<"Ҳ", "ҳ">>, <<"Ҵ", "ҵ">>,
     <<"Ҷ", "ҷ">>, <<"Ҹ", "ҹ">>, <<"Һ", "һ">>, <<"Ҽ", "ҽ">>, <<"Ҿ", "ҿ">>, <<"Ӏ", "ӏ">>,
     <<"Ӂ", "ӂ">>, <<"Ӄ", "ӄ">>, <<"Ӆ", "ӆ">>, <<"Ӈ", "ӈ">>, <<"Ӊ", "ӊ">>, <<"Ӌ", "ӌ">>,
     <<"Ӎ", "ӎ">>, <<"Ӑ", "ӑ">>, <<"Ӓ", "ӓ">>, <<"Ӕ", "ӕ">>, <<"Ӗ", "ӗ">>, <<"Ә", "ә">>,
     <<"Ӛ", "ӛ">>, <<"Ӝ", "ӝ">>, <<"Ӟ", "ӟ">>, <<"Ӡ", "ӡ">>, <<"Ӣ", "ӣ">>, <<"Ӥ", "ӥ">>,
     <<"Ӧ", "ӧ">>, <<"Ө", "ө">>, <<"Ӫ", "ӫ">>, <<"Ӭ", "ӭ">>, <<"Ӯ", "ӯ">>, <<"Ӱ", "ӱ">>,
     <<"Ӳ", "ӳ">>, <<"Ӵ", "ӵ">>, <<"Ӷ", "ӷ">>, <<"Ӹ", "ӹ">>, <<"Ӻ", "ӻ">>, <<"Ӽ", "ӽ">>,
     <<"Ӿ", "ӿ">>, <<"U+0500", "U+0501">>, <<"U+0502", "U+0503">>, <<"U+0504", "U+0505">>, <<"U+0506", "U+0507">>, <<"U+0508", "U+0509">>,
     <<"U+050A", "U+050B">>, <<"U+050C", "U+050D">>, <<"U+050E", "U+050F">>, <<"U+0510", "U+0511">>, <<"U+0512", "U+0513">>, <<"U+0514", "U+0515">>,
     <<"U+0516", "U+0517">>, <<"U+0518", "U+0519">>, <<"U+051A", "U+051B">>, <<"U+051C", "U+051D">>, <<"U+051E", "U+051F">>, <<"U+0520", "U+0521">>,
     <<"U+0522", "U+0523">>, <<"U+0524", "U+0525">>, <<"U+0526", "U+0527">>, <<"U+0528", "U+0529">>, <<"U+052A", "U+052B">>, <<"U+052C", "U+052D">>,
     <<"U+052E", "U+052F">>, <<"U+0531", "U+0561">>, <<"U+0532", "U+0562">>, <<"U+0533", "U+0563">>, <<"U+0534", "U+0564">>, <<"U+0535", "U+0565">>,
     <<"U+0536", "U+0566">>, <<"U+0537", "U+0567">>, <<"U+0538", "U+0568">>, <<"U+0539", "U+0569">>, <<"U+053A", "U+056A">>, <<"U+053B", "U+056B">>,
     <<"U+053C", "U+056C">>, <<"U+053D", "U+056D">>, <<"U+053E", "U+056E">>, <<"U+053F", "U+056F">>, <<"U+0540", "U+0570">>, <<"U+0541", "U+0571">>,
     <<"U+0542", "U+0572">>, <<"U+0543", "U+0573">>, <<"U+0544", "U+0574">>, <<"U+0545", "U+0575">>, <<"U+0546", "U+0576">>, <<"U+0547", "U+0577">>,
     <<"U+0548", "U+0578">>, <<"U+0549", "U+0579">>, <<"U+054A", "U+057A">>, <<"U+054B", "U+057B">>, <<"U+054C", "U+057C">>, <<"U+054D", "U+057D">>,
     <<"U+054E", "U+057E">>, <<"U+054F", "U+057F">>, <<"U+0550", "ր">>, <<"U+0551", "ց">>, <<"U+0552", "ւ">>, <<"U+0553", "փ">>,
     <<"U+0554", "ք">>, <<"U+0555", "օ">>, <<"U+0556", "ֆ">>, <<"Ⴀ", "U+2D00">>, <<"Ⴁ", "U+2D01">>, <<"Ⴂ", "U+2D02">>,
     <<"Ⴃ", "U+2D03">>, <<"Ⴄ", "U+2D04">>, <<"Ⴅ", "U+2D05">>, <<"Ⴆ", "U+2D06">>, <<"Ⴇ", "U+2D07">>, <<"Ⴈ", "U+2D08">>,
     <<"Ⴉ", "U+2D09">>, <<"Ⴊ", "U+2D0A">>, <<"Ⴋ", "U+2D0B">>, <<"Ⴌ", "U+2D0C">>, <<"Ⴍ", "U+2D0D">>, <<"Ⴎ", "U+2D0E">>,
     <<"Ⴏ", "U+2D0F">>, <<"Ⴐ", "U+2D10">>, <<"Ⴑ", "U+2D11">>, <<"Ⴒ", "U+2D12">>, <<"Ⴓ", "U+2D13">>, <<"Ⴔ", "U+2D14">>,
     <<"Ⴕ", "U+2D15">>, <<"Ⴖ", "U+2D16">>, <<"Ⴗ", "U+2D17">>, <<"Ⴘ", "U+2D18">>, <<"Ⴙ", "U+2D19">>, <<"Ⴚ", "U+2D1A">>,
     <<"Ⴛ", "U+2D1B">>, <<"Ⴜ", "U+2D1C">>, <<"Ⴝ", "U+2D1D">>, <<"Ⴞ", "U+2D1E">>, <<"Ⴟ", "U+2D1F">>, <<"Ⴠ", "U+2D20">>,
     <<"Ⴡ", "U+2D21">>, <<"Ⴢ", "U+2D22">>, <<"Ⴣ", "U+2D23">>, <<"Ⴤ", "U+2D24">>, <<"Ⴥ", "U+2D25">>, <<"Ⴧ", "U+2D27">>,
     <<"Ⴭ", "U+2D2D">>, <<"Ꭰ", "U+AB70">>, <<"Ꭱ", "U+AB71">>, <<"Ꭲ", "U+AB72">>, <<"Ꭳ", "U+AB73">>, <<"Ꭴ", "U+AB74">>,
     <<"Ꭵ", "U+AB75">>, <<"Ꭶ", "U+AB76">>, <<"Ꭷ", "U+AB77">>, <<"Ꭸ", "U+AB78">>, <<"Ꭹ", "U+AB79">>, <<"Ꭺ", "U+AB7A">>,
     <<"Ꭻ", "U+AB7B">>, <<"Ꭼ", "U+AB7C">>, <<"Ꭽ", "U+AB7D">>, <<"Ꭾ", "U+AB7E">>, <<"Ꭿ", "U+AB7F">>, <<"Ꮀ", "ꮀ">>,
     <<"Ꮁ", "ꮁ">>, <<"Ꮂ", "ꮂ">>, <<"Ꮃ", "ꮃ">>, <<"Ꮄ", "ꮄ">>, <<"Ꮅ", "ꮅ">>, <<"Ꮆ", "ꮆ">>,
     <<"Ꮇ", "ꮇ">>, <<"Ꮈ", "ꮈ">>, <<"Ꮉ", "ꮉ">>, <<"Ꮊ", "ꮊ">>, <<"Ꮋ", "ꮋ">>, <<"Ꮌ", "ꮌ">>,
     <<"Ꮍ", "ꮍ">>, <<"Ꮎ", "ꮎ">>, <<"Ꮏ", "ꮏ">>, <<"Ꮐ", "ꮐ">>, <<"Ꮑ", "ꮑ">>, <<"Ꮒ", "ꮒ">>,
     <<"Ꮓ", "ꮓ">>, <<"Ꮔ", "ꮔ">>, <<"Ꮕ", "ꮕ">>, <<"Ꮖ", "ꮖ">>, <<"Ꮗ", "ꮗ">>, <<"Ꮘ", "ꮘ">>,
     <<"Ꮙ", "ꮙ">>, <<"Ꮚ", "ꮚ">>, <<"Ꮛ", "ꮛ">>, <<"Ꮜ", "ꮜ">>, <<"Ꮝ", "ꮝ">>, <<"Ꮞ", "ꮞ">>,
     <<"Ꮟ", "ꮟ">>, <<"Ꮠ", "ꮠ">>, <<"Ꮡ", "ꮡ">>, <<"Ꮢ", "ꮢ">>, <<"Ꮣ", "ꮣ">>, <<"Ꮤ", "ꮤ">>,
     <<"Ꮥ", "ꮥ">>, <<"Ꮦ", "ꮦ">>, <<"Ꮧ", "ꮧ">>, <<"Ꮨ", "ꮨ">>, <<"Ꮩ", "ꮩ">>, <<"Ꮪ", "ꮪ">>,
     <<"Ꮫ", "ꮫ">>, <<"Ꮬ", "ꮬ">>, <<"Ꮭ", "ꮭ">>, <<"Ꮮ", "ꮮ">>, <<"Ꮯ", "ꮯ">>, <<"Ꮰ", "ꮰ">>,
     <<"Ꮱ", "ꮱ">>, <<"Ꮲ", "ꮲ">>, <<"Ꮳ", "ꮳ">>, <<"Ꮴ", "ꮴ">>, <<"Ꮵ", "ꮵ">>, <<"Ꮶ", "ꮶ">>,
     <<"Ꮷ", "ꮷ">>, <<"Ꮸ", "ꮸ">>, <<"Ꮹ", "ꮹ">>, <<"Ꮺ", "ꮺ">>, <<"Ꮻ", "ꮻ">>, <<"Ꮼ", "ꮼ">>,
     <<"Ꮽ", "ꮽ">>, <<"Ꮾ", "ꮾ">>, <<"Ꮿ", "ꮿ">>, <<"Ᏸ", "ᏸ">>, <<"Ᏹ", "ᏹ">>, <<"Ᏺ", "ᏺ">>,
     <<"Ᏻ", "ᏻ">>, <<"Ᏼ", "ᏼ">>, <<"Ᏽ", "ᏽ">>, <<"Ᲊ", "ᲊ">>, <<"Ა", "ა">>, <<"Ბ", "ბ">>,
     <<"Გ", "გ">>, <<"Დ", "დ">>, <<"Ე", "ე">>, <<"Ვ", "ვ">>, <<"Ზ", "ზ">>, <<"Თ", "თ">>,
     <<"Ი", "ი">>, <<"Კ", "კ">>, <<"Ლ", "ლ">>, <<"Მ", "მ">>, <<"Ნ", "ნ">>, <<"Ო", "ო">>,
     <<"Პ", "პ">>, <<"Ჟ", "ჟ">>, <<"Რ", "რ">>, <<"Ს", "ს">>, <<"Ტ", "ტ">>, <<"Უ", "უ">>,
     <<"Ფ", "ფ">>, <<"Ქ", "ქ">>, <<"Ღ", "ღ">>, <<"Ყ", "ყ">>, <<"Შ", "შ">>, <<"Ჩ", "ჩ">>,
     <<"Ც", "ც">>, <<"Ძ", "ძ">>, <<"Წ", "წ">>, <<"Ჭ", "ჭ">>, <<"Ხ", "ხ">>, <<"Ჯ", "ჯ">>,
     <<"Ჰ", "ჰ">>, <<"Ჱ", "ჱ">>, <<"Ჲ", "ჲ">>, <<"Ჳ", "ჳ">>, <<"Ჴ", "ჴ">>, <<"Ჵ", "ჵ">>,
     <<"Ჶ", "ჶ">>, <<"Ჷ", "ჷ">>, <<"Ჸ", "ჸ">>, <<"Ჹ", "ჹ">>, <<"Ჺ", "ჺ">>, <<"Ჽ", "ჽ">>,
     <<"Ჾ", "ჾ">>, <<"Ჿ", "ჿ">>, <<"U+1E00", "U+1E01">>, <<"U+1E02", "U+1E03">>, <<"U+1E04", "U+1E05">>, <<"U+1E06", "U+1E07">>,
     <<"U+1E08", "U+1E09">>, <<"U+1E0A", "U+1E0B">>, <<"U+1E0C", "U+1E0D">>, <<"U+1E0E", "U+1E0F">>, <<"U+1E10", "U+1E11">>, <<"U+1E12", "U+1E13">>,
     <<"U+1E14", "U+1E15">>, <<"U+1E16", "U+1E17">>, <<"U+1E18", "U+1E19">>, <<"U+1E1A", "U+1E1B">>, <<"U+1E1C", "U+1E1D">>, <<"U+1E1E", "U+1E1F">>,
     <<"U+1E20", "U+1E21">>, <<"U+1E22", "U+1E23">>, <<"U+1E24", "U+1E25">>, <<"U+1E26", "U+1E27">>, <<"U+1E28", "U+1E29">>, <<"U+1E2A", "U+1E2B">>,
     <<"U+1E2C", "U+1E2D">>, <<"U+1E2E", "U+1E2F">>, <<"U+1E30", "U+1E31">>, <<"U+1E32", "U+1E33">>, <<"U+1E34", "U+1E35">>, <<"U+1E36", "U+1E37">>,
     <<"U+1E38", "U+1E39">>, <<"U+1E3A", "U+1E3B">>, <<"U+1E3C", "U+1E3D">>, <<"U+1E3E", "U+1E3F">>, <<"U+1E40", "U+1E41">>, <<"U+1E42", "U+1E43">>,
     <<"U+1E44", "U+1E45">>, <<"U+1E46", "U+1E47">>, <<"U+1E48", "U+1E49">>, <<"U+1E4A", "U+1E4B">>, <<"U+1E4C", "U+1E4D">>, <<"U+1E4E", "U+1E4F">>,
     <<"U+1E50", "U+1E51">>, <<"U+1E52", "U+1E53">>, <<"U+1E54", "U+1E55">>, <<"U+1E56", "U+1E57">>, <<"U+1E58", "U+1E59">>, <<"U+1E5A", "U+1E5B">>,
     <<"U+1E5C", "U+1E5D">>, <<"U+1E5E", "U+1E5F">>, <<"U+1E60", "U+1E61">>, <<"U+1E62", "U+1E63">>, <<"U+1E64", "U+1E65">>, <<"U+1E66", "U+1E67">>,
     <<"U+1E68", "U+1E69">>, <<"U+1E6A", "U+1E6B">>, <<"U+1E6C", "U+1E6D">>, <<"U+1E6E", "U+1E6F">>, <<"U+1E70", "U+1E71">>, <<"U+1E72", "U+1E73">>,
     <<"U+1E74", "U+1E75">>, <<"U+1E76", "U+1E77">>, <<"U+1E78", "U+1E79">>, <<"U+1E7A", "U+1E7B">>, <<"U+1E7C", "U+1E7D">>, <<"U+1E7E", "U+1E7F">>,
     <<"Ẁ", "ẁ">>, <<"Ẃ", "ẃ">>, <<"Ẅ", "ẅ">>, <<"Ẇ", "ẇ">>, <<"Ẉ", "ẉ">>, <<"Ẋ", "ẋ">>,
     <<"Ẍ", "ẍ">>, <<"Ẏ", "ẏ">>, <<"Ẑ", "ẑ">>, <<"Ẓ", "ẓ">>, <<"Ẕ", "ẕ">>, <<"ẞ", "ß">>,
     <<"Ạ", "ạ">>, <<"Ả", "ả">>, <<"Ấ", "ấ">>, <<"Ầ", "ầ">>, <<"Ẩ", "ẩ">>, <<"Ẫ", "ẫ">>,
     <<"Ậ", "ậ">>, <<"Ắ", "ắ">>, <<"Ằ", "ằ">>, <<"Ẳ", "ẳ">>, <<"Ẵ", "ẵ">>, <<"Ặ", "ặ">>,
     <<"Ẹ", "ẹ">>, <<"Ẻ", "ẻ">>, <<"Ẽ", "ẽ">>, <<"Ế", "ế">>, <<"Ề", "ề">>, <<"Ể", "ể">>,
     <<"Ễ", "ễ">>, <<"Ệ", "ệ">>, <<"Ỉ", "ỉ">>, <<"Ị", "ị">>, <<"Ọ", "ọ">>, <<"Ỏ", "ỏ">>,
     <<"Ố", "ố">>, <<"Ồ", "ồ">>, <<"Ổ", "ổ">>, <<"Ỗ", "ỗ">>, <<"Ộ", "ộ">>, <<"Ớ", "ớ">>,
     <<"Ờ", "ờ">>, <<"Ở", "ở">>, <<"Ỡ", "ỡ">>, <<"Ợ", "ợ">>, <<"Ụ", "ụ">>, <<"Ủ", "ủ">>,
     <<"Ứ", "ứ">>, <<"Ừ", "ừ">>, <<"Ử", "ử">>, <<"Ữ", "ữ">>, <<"Ự", "ự">>, <<"Ỳ", "ỳ">>,
     <<"Ỵ", "ỵ">>, <<"Ỷ", "ỷ">>, <<"Ỹ", "ỹ">>, <<"Ỻ", "ỻ">>, <<"Ỽ", "ỽ">>, <<"Ỿ", "ỿ">>,
     <<"U+1F08", "U+1F00">>, <<"U+1F09", "U+1F01">>, <<"U+1F0A", "U+1F02">>, <<"U+1F0B", "U+1F03">>, <<"U+1F0C", "U+1F04">>, <<"U+1F0D", "U+1F05">>,
     <<"U+1F0E", "U+1F06">>, <<"U+1F0F", "U+1F07">>, <<"U+1F18", "U+1F10">>, <<"U+1F19", "U+1F11">>, <<"U+1F1A", "U+1F12">>, <<"U+1F1B", "U+1F13">>,
     <<"U+1F1C", "U+1F14">>, <<"U+1F1D", "U+1F15">>, <<"U+1F28", "U+1F20">>, <<"U+1F29", "U+1F21">>, <<"U+1F2A", "U+1F22">>, <<"U+1F2B", "U+1F23">>,
     <<"U+1F2C", "U+1F24">>, <<"U+1F2D", "U+1F25">>, <<"U+1F2E", "U+1F26">>, <<"U+1F2F", "U+1F27">>, <<"U+1F38", "U+1F30">>, <<"U+1F39", "U+1F31">>,
     <<"U+1F3A", "U+1F32">>, <<"U+1F3B", "U+1F33">>, <<"U+1F3C", "U+1F34">>, <<"U+1F3D", "U+1F35">>, <<"U+1F3E", "U+1F36">>, <<"U+1F3F", "U+1F37">>,
     <<"U+1F48", "U+1F40">>, <<"U+1F49", "U+1F41">>, <<"U+1F4A", "U+1F42">>, <<"U+1F4B", "U+1F43">>, <<"U+1F4C", "U+1F44">>, <<"U+1F4D", "U+1F45">>,
     <<"U+1F59", "U+1F51">>, <<"U+1F5B", "U+1F53">>, <<"U+1F5D", "U+1F55">>, <<"U+1F5F", "U+1F57">>, <<"U+1F68", "U+1F60">>, <<"U+1F69", "U+1F61">>,
     <<"U+1F6A", "U+1F62">>, <<"U+1F6B", "U+1F63">>, <<"U+1F6C", "U+1F64">>, <<"U+1F6D", "U+1F65">>, <<"U+1F6E", "U+1F66">>, <<"U+1F6F", "U+1F67">>,
     <<"ᾈ", "ᾀ">>, <<"ᾉ", "ᾁ">>, <<"ᾊ", "ᾂ">>, <<"ᾋ", "ᾃ">>, <<"ᾌ", "ᾄ">>, <<"ᾍ", "ᾅ">>,
     <<"ᾎ", "ᾆ">>, <<"ᾏ", "ᾇ">>, <<"ᾘ", "ᾐ">>, <<"ᾙ", "ᾑ">>, <<"ᾚ", "ᾒ">>, <<"ᾛ", "ᾓ">>,
     <<"ᾜ", "ᾔ">>, <<"ᾝ", "ᾕ">>, <<"ᾞ", "ᾖ">>, <<"ᾟ", "ᾗ">>, <<"ᾨ", "ᾠ">>, <<"ᾩ", "ᾡ">>,
     <<"ᾪ", "ᾢ">>, <<"ᾫ", "ᾣ">>, <<"ᾬ", "ᾤ">>, <<"ᾭ", "ᾥ">>, <<"ᾮ", "ᾦ">>, <<"ᾯ", "ᾧ">>,
     <<"Ᾰ", "ᾰ">>, <<"Ᾱ", "ᾱ">>, <<"Ὰ", "U+1F70">>, <<"Ά", "U+1F71">>, <<"ᾼ", "ᾳ">>, <<"Ὲ", "U+1F72">>,
     <<"Έ", "U+1F73">>, <<"Ὴ", "U+1F74">>, <<"Ή", "U+1F75">>, <<"ῌ", "ῃ">>, <<"Ῐ", "ῐ">>, <<"Ῑ", "ῑ">>,
     <<"Ὶ", "U+1F76">>, <<"Ί", "U+1F77">>, <<"Ῠ", "ῠ">>, <<"Ῡ", "ῡ">>, <<"Ὺ", "U+1F7A">>, <<"Ύ", "U+1F7B">>,
     <<"Ῥ", "ῥ">>, <<"Ὸ", "U+1F78">>, <<"Ό", "U+1F79">>, <<"Ὼ", "U+1F7C">>, <<"Ώ", "U+1F7D">>, <<"ῼ", "ῳ">>,
     <<"U+2126", "ω">>, <<"U+212A", "k">>, <<"U+212B", "å">>, <<"U+2132", "U+214E">>, <<"U+2160", "U+2170">>, <<"U+2161", "U+2171">>,
     <<"U+2162", "U+2172">>, <<"U+2163", "U+2173">>, <<"U+2164", "U+2174">>, <<"U+2165", "U+2175">>, <<"U+2166", "U+2176">>, <<"U+2167", "U+2177">>,
     <<"U+2168", "U+2178">>, <<"U+2169", "U+2179">>, <<"U+216A", "U+217A">>, <<"U+216B", "U+217B">>, <<"U+216C", "U+217C">>, <<"U+216D", "U+217D">>,
     <<"U+216E", "U+217E">>, <<"U+216F", "U+217F">>, <<"Ↄ", "ↄ">>, <<"Ⓐ", "ⓐ">>, <<"Ⓑ", "ⓑ">>, <<"Ⓒ", "ⓒ">>,
     <<"Ⓓ", "ⓓ">>, <<"Ⓔ", "ⓔ">>, <<"Ⓕ", "ⓕ">>, <<"Ⓖ", "ⓖ">>, <<"Ⓗ", "ⓗ">>, <<"Ⓘ", "ⓘ">>,
     <<"Ⓙ", "ⓙ">>, <<"Ⓚ", "ⓚ">>, <<"Ⓛ", "ⓛ">>, <<"Ⓜ", "ⓜ">>, <<"Ⓝ", "ⓝ">>, <<"Ⓞ", "ⓞ">>,
     <<"Ⓟ", "ⓟ">>, <<"Ⓠ", "ⓠ">>, <<"Ⓡ", "ⓡ">>, <<"Ⓢ", "ⓢ">>, <<"Ⓣ", "ⓣ">>, <<"Ⓤ", "ⓤ">>,
     <<"Ⓥ", "ⓥ">>, <<"Ⓦ", "ⓦ">>, <<"Ⓧ", "ⓧ">>, <<"Ⓨ", "ⓨ">>, <<"Ⓩ", "ⓩ">>, <<"U+2C00", "U+2C30">>,
     <<"U+2C01", "U+2C31">>, <<"U+2C02", "U+2C32">>, <<"U+2C03", "U+2C33">>, <<"U+2C04", "U+2C34">>, <<"U+2C05", "U+2C35">>, <<"U+2C06", "U+2C36">>,
     <<"U+2C07", "U+2C37">>, <<"U+2C08", "U+2C38">>, <<"U+2C09", "U+2C39">>, <<"U+2C0A", "U+2C3A">>, <<"U+2C0B", "U+2C3B">>, <<"U+2C0C", "U+2C3C">>,
     <<"U+2C0D", "U+2C3D">>, <<"U+2C0E", "U+2C3E">>, <<"U+2C0F", "U+2C3F">>, <<"U+2C10", "U+2C40">>, <<"U+2C11", "U+2C41">>, <<"U+2C12", "U+2C42">>,
     <<"U+2C13", "U+2C43">>, <<"U+2C14", "U+2C44">>, <<"U+2C15", "U+2C45">>, <<"U+2C16", "U+2C46">>, <<"U+2C17", "U+2C47">>, <<"U+2C18", "U+2C48">>,
     <<"U+2C19", "U+2C49">>, <<"U+2C1A", "U+2C4A">>, <<"U+2C1B", "U+2C4B">>, <<"U+2C1C", "U+2C4C">>, <<"U+2C1D", "U+2C4D">>, <<"U+2C1E", "U+2C4E">>,
     <<"U+2C1F", "U+2C4F">>, <<"U+2C20", "U+2C50">>, <<"U+2C21", "U+2C51">>, <<"U+2C22", "U+2C52">>, <<"U+2C23", "U+2C53">>, <<"U+2C24", "U+2C54">>,
     <<"U+2C25", "U+2C55">>, <<"U+2C26", "U+2C56">>, <<"U+2C27", "U+2C57">>, <<"U+2C28", "U+2C58">>, <<"U+2C29", "U+2C59">>, <<"U+2C2A", "U+2C5A">>,
     <<"U+2C2B", "U+2C5B">>, <<"U+2C2C", "U+2C5C">>, <<"U+2C2D", "U+2C5D">>, <<"U+2C2E", "U+2C5E">>, <<"U+2C2F", "U+2C5F">>, <<"U+2C60", "U+2C61">>,
     <<"U+2C62", "U+026B">>, <<"U+2C63", "U+1D7D">>, <<"U+2C64", "U+027D">>, <<"U+2C67", "U+2C68">>, <<"U+2C69", "U+2C6A">>, <<"U+2C6B", "U+2C6C">>,
     <<"U+2C6D", "U+0251">>, <<"U+2C6E", "U+0271">>, <<"U+2C6F", "U+0250">>, <<"U+2C70", "U+0252">>, <<"U+2C72", "U+2C73">>, <<"U+2C75", "U+2C76">>,
     <<"U+2C7E", "U+023F">>, <<"U+2C7F", "U+0240">>, <<"Ⲁ", "ⲁ">>, <<"Ⲃ", "ⲃ">>, <<"Ⲅ", "ⲅ">>, <<"Ⲇ", "ⲇ">>,
     <<"Ⲉ", "ⲉ">>, <<"Ⲋ", "ⲋ">>, <<"Ⲍ", "ⲍ">>, <<"Ⲏ", "ⲏ">>, <<"Ⲑ", "ⲑ">>, <<"Ⲓ", "ⲓ">>,
     <<"Ⲕ", "ⲕ">>, <<"Ⲗ", "ⲗ">>, <<"Ⲙ", "ⲙ">>, <<"Ⲛ", "ⲛ">>, <<"Ⲝ", "ⲝ">>, <<"Ⲟ", "ⲟ">>,
     <<"Ⲡ", "ⲡ">>, <<"Ⲣ", "ⲣ">>, <<"Ⲥ", "ⲥ">>, <<"Ⲧ", "ⲧ">>, <<"Ⲩ", "ⲩ">>, <<"Ⲫ", "ⲫ">>,
     <<"Ⲭ", "ⲭ">>, <<"Ⲯ", "ⲯ">>, <<"Ⲱ", "ⲱ">>, <<"Ⲳ", "ⲳ">>, <<"Ⲵ", "ⲵ">>, <<"Ⲷ", "ⲷ">>,
     <<"Ⲹ", "ⲹ">>, <<"Ⲻ", "ⲻ">>, <<"Ⲽ", "ⲽ">>, <<"Ⲿ", "ⲿ">>, <<"Ⳁ", "ⳁ">>, <<"Ⳃ", "ⳃ">>,
     <<"Ⳅ", "ⳅ">>, <<"Ⳇ", "ⳇ">>, <<"Ⳉ", "ⳉ">>, <<"Ⳋ", "ⳋ">>, <<"Ⳍ", "ⳍ">>, <<"Ⳏ", "ⳏ">>,
     <<"Ⳑ", "ⳑ">>, <<"Ⳓ", "ⳓ">>, <<"Ⳕ", "ⳕ">>, <<"Ⳗ", "ⳗ">>, <<"Ⳙ", "ⳙ">>, <<"Ⳛ", "ⳛ">>,
     <<"Ⳝ", "ⳝ">>, <<"Ⳟ", "ⳟ">>, <<"Ⳡ", "ⳡ">>, <<"Ⳣ", "ⳣ">>, <<"Ⳬ", "ⳬ">>, <<"Ⳮ", "ⳮ">>,
     <<"Ⳳ", "ⳳ">>, <<"U+A640", "U+A641">>, <<"U+A642", "U+A643">>, <<"U+A644", "U+A645">>, <<"U+A646", "U+A647">>, <<"U+A648", "U+A649">>,
     <<"U+A64A", "U+A64B">>, <<"U+A64C", "U+A64D">>, <<"U+A64E", "U+A64F">>, <<"U+A650", "U+A651">>, <<"U+A652", "U+A653">>, <<"U+A654", "U+A655">>,
     <<"U+A656", "U+A657">>, <<"U+A658", "U+A659">>, <<"U+A65A", "U+A65B">>, <<"U+A65C", "U+A65D">>, <<"U+A65E", "U+A65F">>, <<"U+A660", "U+A661">>,
     <<"U+A662", "U+A663">>, <<"U+A664", "U+A665">>, <<"U+A666", "U+A667">>, <<"U+A668", "U+A669">>, <<"U+A66A", "U+A66B">>, <<"U+A66C", "U+A66D">>,
     <<"Ꚁ", "ꚁ">>, <<"Ꚃ", "ꚃ">>, <<"Ꚅ", "ꚅ">>, <<"Ꚇ", "ꚇ">>, <<"Ꚉ", "ꚉ">>, <<"Ꚋ", "ꚋ">>,
     <<"Ꚍ", "ꚍ">>, <<"Ꚏ", "ꚏ">>, <<"Ꚑ", "ꚑ">>, <<"Ꚓ", "ꚓ">>, <<"Ꚕ", "ꚕ">>, <<"Ꚗ", "ꚗ">>,
     <<"Ꚙ", "ꚙ">>, <<"Ꚛ", "ꚛ">>, <<"U+A722", "U+A723">>, <<"U+A724", "U+A725">>, <<"U+A726", "U+A727">>, <<"U+A728", "U+A729">>,
     <<"U+A72A", "U+A72B">>, <<"U+A72C", "U+A72D">>, <<"U+A72E", "U+A72F">>, <<"U+A732", "U+A733">>, <<"U+A734", "U+A735">>, <<"U+A736", "U+A737">>,
     <<"U+A738", "U+A739">>, <<"U+A73A", "U+A73B">>, <<"U+A73C", "U+A73D">>, <<"U+A73E", "U+A73F">>, <<"U+A740", "U+A741">>, <<"U+A742", "U+A743">>,
     <<"U+A744", "U+A745">>, <<"U+A746", "U+A747">>, <<"U+A748", "U+A749">>, <<"U+A74A", "U+A74B">>, <<"U+A74C", "U+A74D">>, <<"U+A74E", "U+A74F">>,
     <<"U+A750", "U+A751">>, <<"U+A752", "U+A753">>, <<"U+A754", "U+A755">>, <<"U+A756", "U+A757">>, <<"U+A758", "U+A759">>, <<"U+A75A", "U+A75B">>,
     <<"U+A75C", "U+A75D">>, <<"U+A75E", "U+A75F">>, <<"U+A760", "U+A761">>, <<"U+A762", "U+A763">>, <<"U+A764", "U+A765">>, <<"U+A766", "U+A767">>,
     <<"U+A768", "U+A769">>, <<"U+A76A", "U+A76B">>, <<"U+A76C", "U+A76D">>, <<"U+A76E", "U+A76F">>, <<"U+A779", "U+A77A">>, <<"U+A77B", "U+A77C">>,
     <<"U+A77D", "U+1D79">>, <<"U+A77E", "U+A77F">>, <<"Ꞁ", "ꞁ">>, <<"Ꞃ", "ꞃ">>, <<"Ꞅ", "ꞅ">>, <<"Ꞇ", "ꞇ">>,
     <<"Ꞌ", "ꞌ">>, <<"Ɥ", "U+0265">>, <<"Ꞑ", "ꞑ">>, <<"Ꞓ", "ꞓ">>, <<"Ꞗ", "ꞗ">>, <<"Ꞙ", "ꞙ">>,
     <<"Ꞛ", "ꞛ">>, <<"Ꞝ", "ꞝ">>, <<"Ꞟ", "ꞟ">>, <<"Ꞡ", "ꞡ">>, <<"Ꞣ", "ꞣ">>, <<"Ꞥ", "ꞥ">>,
     <<"Ꞧ", "ꞧ">>, <<"Ꞩ", "ꞩ">>, <<"Ɦ", "U+0266">>, <<"Ɜ", "U+025C">>, <<"Ɡ", "U+0261">>, <<"Ɬ", "U+026C">>,
     <<"Ɪ", "U+026A">>, <<"Ʞ", "ʞ">>, <<"Ʇ", "ʇ">>, <<"Ʝ", "ʝ">>, <<"Ꭓ", "U+AB53">>, <<"Ꞵ", "ꞵ">>,
     <<"Ꞷ", "ꞷ">>, <<"Ꞹ", "ꞹ">>, <<"Ꞻ", "ꞻ">>, <<"Ꞽ", "ꞽ">>, <<"Ꞿ", "ꞿ">>, <<"Ꟁ", "ꟁ">>,
     <<"Ꟃ", "ꟃ">>, <<"Ꞔ", "ꞔ">>, <<"Ʂ", "ʂ">>, <<"Ᶎ", "ᶎ">>, <<"Ꟈ", "ꟈ">>, <<"Ꟊ", "ꟊ">>,
     <<"Ɤ", "U+0264">>, <<"Ꟍ", "ꟍ">>, <<"꟎", "꟏">>, <<"Ꟑ", "ꟑ">>, <<"꟒", "ꟓ">>, <<"꟔", "ꟕ">>,
     <<"Ꟗ", "ꟗ">>, <<"Ꟙ", "ꟙ">>, <<"Ꟛ", "ꟛ">>, <<"Ƛ", "ƛ">>, <<"Ꟶ", "ꟶ">>, <<"U+FF21", "U+FF41">>,
     <<"U+FF22", "U+FF42">>, <<"U+FF23", "U+FF43">>, <<"U+FF24", "U+FF44">>, <<"U+FF25", "U+FF45">>, <<"U+FF26", "U+FF46">>, <<"U+FF27", "U+FF47">>,
     <<"U+FF28", "U+FF48">>, <<"U+FF29", "U+FF49">>, <<"U+FF2A", "U+FF4A">>, <<"U+FF2B", "U+FF4B">>, <<"U+FF2C", "U+FF4C">>, <<"U+FF2D", "U+FF4D">>,
     <<"U+FF2E", "U+FF4E">>, <<"U+FF2F", "U+FF4F">>, <<"U+FF30", "U+FF50">>, <<"U+FF31", "U+FF51">>, <<"U+FF32", "U+FF52">>, <<"U+FF33", "U+FF53">>,
     <<"U+FF34", "U+FF54">>, <<"U+FF35", "U+FF55">>, <<"U+FF36", "U+FF56">>, <<"U+FF37", "U+FF57">>, <<"U+FF38", "U+FF58">>, <<"U+FF39", "U+FF59">>,
     <<"U+FF3A", "U+FF5A">>}

\* The letters that have a case besides those above, and the characters that
\* are passed over when the letters around a capital sigma are looked for
\* (Cased and Case_Ignorable of the Unicode standard; a character that is
\* both is listed as passed over only).
OtherCased ==
    {
     "ª", "µ", "º", "U+0131", "U+0138", "U+0149", "U+017F", "ƍ", "ƪ", "ƫ", "ƺ", "ƾ",
     "ǰ", "U+0221", "U+0234", "U+0235", "U+0236", "U+0237", "U+0238", "U+0239", "U+0255", "U+0258", "U+025A", "U+025D",
     "U+025E", "U+025F", "U+0262", "U+0267", "U+026D", "U+026E", "U+0270", "U+0273", "U+0274", "U+0276", "U+0277", "U+0278",
     "U+0279", "U+027A", "U+027B", "U+027C", "U+027E", "U+027F", "ʁ", "ʄ", "ʅ", "ʆ", "ʍ", "ʎ",
     "ʏ", "ʐ", "ʑ", "ʓ", "ʖ", "ʗ", "ʘ", "ʙ", "ʚ", "ʛ", "ʜ", "ʟ",
     "ʠ", "ʡ", "ʢ", "ʣ", "ʤ", "ʥ", "ʦ", "ʧ", "ʨ", "ʩ", "ʪ", "ʫ",
     "ʬ", "ʭ", "ʮ", "ʯ", "ΐ", "ΰ", "ϐ", "ϑ", "ϒ", "ϓ", "ϔ", "ϕ",
     "ϖ", "ϰ", "ϱ", "ϵ", "ϼ", "U+0560", "և", "ֈ", "ᲀ", "ᲁ", "ᲂ", "ᲃ",
     "ᲄ", "ᲅ", "ᲆ", "ᲇ", "ᲈ", "U+1D00", "U+1D01", "U+1D02", "U+1D03", "U+1D04", "U+1D05", "U+1D06",
     "U+1D07", "U+1D08", "U+1D09", "U+1D0A", "U+1D0B", "U+1D0C", "U+1D0D", "U+1D0E", "U+1D0F", "U+1D10", "U+1D11", "U+1D12",
     "U+1D13", "U+1D14", "U+1D15", "U+1D16", "U+1D17", "U+1D18", "U+1D19", "U+1D1A", "U+1D1B", "U+1D1C", "U+1D1D", "U+1D1E",
     "U+1D1F", "U+1D20", "U+1D21", "U+1D22", "U+1D23", "U+1D24", "U+1D25", "U+1D26", "U+1D27", "U+1D28", "U+1D29", "U+1D2A",
     "U+1D2B", "U+1D6B", "U+1D6C", "U+1D6D", "U+1D6E", "U+1D6F", "U+1D70", "U+1D71", "U+1D72", "U+1D73", "U+1D74", "U+1D75",
     "U+1D76", "U+1D77", "U+1D7A", "U+1D7B", "U+1D7C", "U+1D7E", "U+1D7F", "ᶀ", "ᶁ", "ᶂ", "ᶃ", "ᶄ",
     "ᶅ", "ᶆ", "ᶇ", "ᶈ", "ᶉ", "ᶊ", "ᶋ", "ᶌ", "ᶍ", "ᶏ", "ᶐ", "ᶑ",
     "ᶒ", "ᶓ", "ᶔ", "ᶕ", "ᶖ", "ᶗ", "ᶘ", "ᶙ", "ᶚ", "ẖ", "ẗ", "ẘ",
     "ẙ", "ẚ", "ẛ", "ẜ", "ẝ", "ẟ", "U+1F50", "U+1F52", "U+1F54", "U+1F56", "ᾲ", "ᾴ",
     "ᾶ", "ᾷ", "ι", "ῂ", "ῄ", "ῆ", "ῇ", "ῒ", "ΐ", "ῖ", "ῗ", "ῢ",
     "ΰ", "ῤ", "ῦ", "ῧ", "ῲ", "ῴ", "ῶ", "ῷ", "U+2102", "U+2107", "U+210A", "U+210B",
     "U+210C", "U+210D", "U+210E", "U+210F", "U+2110", "U+2111", "U+2112", "U+2113", "U+2115", "U+2119", "U+211A", "U+211B",
     "U+211C", "U+211D", "U+2124", "U+2128", "U+212C", "U+212D", "U+212F", "U+2130", "U+2131", "U+2133", "U+2134", "U+2139",
     "U+213C", "U+213D", "U+213E", "U+213F", "U+2145", "U+2146", "U+2147", "U+2148", "U+2149", "U+2C71", "U+2C74", "U+2C77",
     "U+2C78", "U+2C79", "U+2C7A", "U+2C7B", "ⳤ", "U+A730", "U+A731", "U+A771", "U+A772", "U+A773", "U+A774", "U+A775",
     "U+A776", "U+A777", "U+A778", "ꞎ", "ꞕ", "ꞯ", "ꟺ", "U+AB30", "U+AB31", "U+AB32", "U+AB33", "U+AB34",
     "U+AB35", "U+AB36", "U+AB37", "U+AB38", "U+AB39", "U+AB3A", "U+AB3B", "U+AB3C", "U+AB3D", "U+AB3E", "U+AB3F", "U+AB40",
     "U+AB41", "U+AB42", "U+AB43", "U+AB44", "U+AB45", "U+AB46", "U+AB47", "U+AB48", "U+AB49", "U+AB4A", "U+AB4B", "U+AB4C",
     "U+AB4D", "U+AB4E", "U+AB4F", "U+AB50", "U+AB51", "U+AB52", "U+AB54", "U+AB55", "U+AB56", "U+AB57", "U+AB58", "U+AB59",
     "U+AB5A", "U+AB60", "U+AB61", "U+AB62", "U+AB63", "U+AB64", "U+AB65", "U+AB66", "U+AB67", "U+AB68", "U+FB00", "U+FB01",
     "U+FB02", "U+FB03", "U+FB04", "U+FB05", "U+FB06", "U+FB13", "U+FB14", "U+FB15", "U+FB16", "U+FB17"}

CaseIgnorable ==
    {
     "'", ".", ":", "^", "U+0060", "¨", "­", "¯", "´", "·", "¸", "ʰ",
     "ʱ", "ʲ", "ʳ", "ʴ", "ʵ", "ʶ", "ʷ", "ʸ", "ʹ", "ʺ", "ʻ", "ʼ",
     "ʽ", "ʾ", "ʿ", "ˀ", "ˁ", "˂", "˃", "˄", "˅", "ˆ", "ˇ", "ˈ",
     "ˉ", "ˊ", "ˋ", "ˌ", "ˍ", "ˎ", "ˏ", "ː", "ˑ", "˒", "˓", "˔",
     "˕", "˖", "˗", "˘", "˙", "˚", "˛", "˜", "˝", "˞", "˟", "ˠ",
     "ˡ", "ˢ", "ˣ", "ˤ", "˥", "˦", "˧", "˨", "˩", "˪", "˫", "ˬ",
     "˭", "ˮ", "˯", "˰", "˱", "˲", "˳", "˴", "˵", "˶", "˷", "˸",
     "˹", "˺", "˻", "˼", "˽", "˾", "˿", "U+0300", "U+0301", "U+0302", "U+0303", "U+0304",
     "U+0305", "U+0306", "U+0307", "U+0308", "U+0309", "U+030A", "U+030B", "U+030C", "U+030D", "U+030E", "U+030F", "U+0310",
     "U+0311", "U+0312", "U+0313", "U+0314", "U+0315", "U+0316", "U+0317", "U+0318", "U+0319", "U+031A", "U+031B", "U+031C",
     "U+031D", "U+031E", "U+031F", "U+0320", "U+0321", "U+0322", "U+0323", "U+0324", "U+0325", "U+0326", "U+0327", "U+0328",
     "U+0329", "U+032A", "U+032B", "U+032C", "U+032D", "U+032E", "U+032F", "U+0330", "U+0331", "U+0332", "U+0333", "U+0334",
     "U+0335", "U+0336", "U+0337", "U+0338", "U+0339", "U+033A", "U+033B", "U+033C", "U+033D", "U+033E", "U+033F", "U+0340",
     "U+0341", "U+0342", "U+0343", "U+0344", "U+0345", "U+0346", "U+0347", "U+0348", "U+0349", "U+034A", "U+034B", "U+034C",
     "U+034D", "U+034E", "U+034F", "U+0350", "U+0351", "U+0352", "U+0353", "U+0354", "U+0355", "U+0356", "U+0357", "U+0358",
     "U+0359", "U+035A", "U+035B", "U+035C", "U+035D", "U+035E", "U+035F", "U+0360", "U+0361", "U+0362", "U+0363", "U+0364",
     "U+0365", "U+0366", "U+0367", "U+0368", "U+0369", "U+036A", "U+036B", "U+036C", "U+036D", "U+036E", "U+036F", "U+0374",
     "U+0375", "U+037A", "΄", "΅", "·", "҃", "҄", "҅", "҆", "҇", "҈", "҉",
     "U+0559", "U+055F", "֑", "֒", "֓", "֔", "֕", "֖", "֗", "֘", "֙", "֚",
     "֛", "֜", "֝", "֞", "֟", "֠", "֡", "֢", "֣", "֤", "֥", "֦",
     "֧", "֨", "֩", "֪", "֫", "֬", "֭", "֮", "֯", "ְ", "ֱ", "ֲ",
     "ֳ", "ִ", "ֵ", "ֶ", "ַ", "ָ", "ֹ", "ֺ", "ֻ", "ּ", "ֽ", "ֿ",
     "ׁ", "ׂ", "ׄ", "ׅ", "ׇ", "״", "U+0600", "U+0601", "U+0602", "U+0603", "U+0604", "U+0605",
     "U+0610", "U+0611", "U+0612", "U+0613", "U+0614", "U+0615", "U+0616", "U+0617", "U+0618", "U+0619", "U+061A", "U+061C",
     "U+0640", "U+064B", "U+064C", "U+064D", "U+064E", "U+064F", "U+0650", "U+0651", "U+0652", "U+0653", "U+0654", "U+0655",
     "U+0656", "U+0657", "U+0658", "U+0659", "U+065A", "U+065B", "U+065C", "U+065D", "U+065E", "U+065F", "U+0670", "ۖ",
     "ۗ", "ۘ", "ۙ", "ۚ", "ۛ", "ۜ", "۝", "۟", "۠", "ۡ", "ۢ", "ۣ",
     "ۤ", "ۥ", "ۦ", "ۧ", "ۨ", "۪", "۫", "۬", "ۭ", "U+070F", "U+0711", "U+0730",
     "U+0731", "U+0732", "U+0733", "U+0734", "U+0735", "U+0736", "U+0737", "U+0738", "U+0739", "U+073A", "U+073B", "U+073C",
     "U+073D", "U+073E", "U+073F", "U+0740", "U+0741", "U+0742", "U+0743", "U+0744", "U+0745", "U+0746", "U+0747", "U+0748",
     "U+0749", "U+074A", "ަ", "ާ", "ި", "ީ", "ު", "ޫ", "ެ", "ޭ", "ޮ", "ޯ",
     "ް", "߫", "߬", "߭", "߮", "߯", "߰", "߱", "߲", "߳", "ߴ", "ߵ",
     "ߺ", "߽", "U+0816", "U+0817", "U+0818", "U+0819", "U+081A", "U+081B", "U+081C", "U+081D", "U+081E", "U+081F",
     "U+0820", "U+0821", "U+0822", "U+0823", "U+0824", "U+0825", "U+0826", "U+0827", "U+0828", "U+0829", "U+082A", "U+082B",
     "U+082C", "U+082D", "U+0859", "U+085A", "U+085B", "࢈", "࢐", "࢑", "ࢗ", "࢘", "࢙", "࢚",
     "࢛", "࢜", "࢝", "࢞", "࢟", "ࣉ", "࣊", "࣋", "࣌", "࣍", "࣎", "࣏",
     "࣐", "࣑", "࣒", "࣓", "ࣔ", "ࣕ", "ࣖ", "ࣗ", "ࣘ", "ࣙ", "ࣚ", "ࣛ",
     "ࣜ", "ࣝ", "ࣞ", "ࣟ", "࣠", "࣡", "࣢", "ࣣ", "ࣤ", "ࣥ", "ࣦ", "ࣧ",
     "ࣨ", "ࣩ", "࣪", "࣫", "࣬", "࣭", "࣮", "࣯", "ࣰ", "ࣱ", "ࣲ", "ࣳ",
     "ࣴ", "ࣵ", "ࣶ", "ࣷ", "ࣸ", "ࣹ", "ࣺ", "ࣻ", "ࣼ", "ࣽ", "ࣾ", "ࣿ",
     "U+0900", "U+0901", "U+0902", "U+093A", "U+093C", "U+0941", "U+0942", "U+0943", "U+0944", "U+0945", "U+0946", "U+0947",
     "U+0948", "U+094D", "U+0951", "U+0952", "U+0953", "U+0954", "U+0955", "U+0956", "U+0957", "U+0962", "U+0963", "U+0971",
     "ঁ", "়", "ু", "ূ", "ৃ", "ৄ", "্", "ৢ", "ৣ", "৾", "U+0A01", "U+0A02",
     "U+0A3C", "U+0A41", "U+0A42", "U+0A47", "U+0A48", "U+0A4B", "U+0A4C", "U+0A4D", "U+0A51", "U+0A70", "U+0A71", "U+0A75",
     "ઁ", "ં", "઼", "ુ", "ૂ", "ૃ", "ૄ", "ૅ", "ે", "ૈ", "્", "ૢ",
     "ૣ", "ૺ", "ૻ", "ૼ", "૽", "૾", "૿", "U+0B01", "U+0B3C", "U+0B3F", "U+0B41", "U+0B42",
     "U+0B43", "U+0B44", "U+0B4D", "U+0B55", "U+0B56", "U+0B62", "U+0B63", "ஂ", "ீ", "்", "U+0C00", "U+0C04",
     "U+0C3C", "U+0C3E", "U+0C3F", "U+0C40", "U+0C46", "U+0C47", "U+0C48", "U+0C4A", "U+0C4B", "U+0C4C", "U+0C4D", "U+0C55",
     "U+0C56", "U+0C62", "U+0C63", "ಁ", "಼", "ಿ", "ೆ", "ೌ", "್", "ೢ", "ೣ", "U+0D00",
     "U+0D01", "U+0D3B", "U+0D3C", "U+0D41", "U+0D42", "U+0D43", "U+0D44", "U+0D4D", "U+0D62", "U+0D63", "ඁ", "්",
     "ි", "ී", "ු", "ූ", "U+0E31", "U+0E34", "U+0E35", "U+0E36", "U+0E37", "U+0E38", "U+0E39", "U+0E3A",
     "U+0E46", "U+0E47", "U+0E48", "U+0E49", "U+0E4A", "U+0E4B", "U+0E4C", "U+0E4D", "U+0E4E", "ັ", "ິ", "ີ",
     "ຶ", "ື", "ຸ", "ູ", "຺", "ົ", "ຼ", "ໆ", "່", "້", "໊", "໋",
     "໌", "ໍ", "໎", "U+0F18", "U+0F19", "U+0F35", "U+0F37", "U+0F39", "U+0F71", "U+0F72", "U+0F73", "U+0F74",
     "U+0F75", "U+0F76", "U+0F77", "U+0F78", "U+0F79", "U+0F7A", "U+0F7B", "U+0F7C", "U+0F7D", "U+0F7E", "ྀ", "ཱྀ",
     "ྂ", "ྃ", "྄", "྆", "྇", "ྍ", "ྎ", "ྏ", "ྐ", "ྑ", "ྒ", "ྒྷ",
     "ྔ", "ྕ", "ྖ", "ྗ", "ྙ", "ྚ", "ྛ", "ྜ", "ྜྷ", "ྞ", "ྟ", "ྠ",
     "ྡ", "ྡྷ", "ྣ", "ྤ", "ྥ", "ྦ", "ྦྷ", "ྨ", "ྩ", "ྪ", "ྫ", "ྫྷ",
     "ྭ", "ྮ", "ྯ", "ྰ", "ྱ", "ྲ", "ླ", "ྴ", "ྵ", "ྶ", "ྷ", "ྸ",
     "ྐྵ", "ྺ", "ྻ", "ྼ", "࿆", "U+102D", "U+102E", "U+102F", "U+1030", "U+1032", "U+1033", "U+1034",
     "U+1035", "U+1036", "U+1037", "U+1039", "U+103A", "U+103D", "U+103E", "U+1058", "U+1059", "U+105E", "U+105F", "U+1060",
     "U+1071", "U+1072", "U+1073", "U+1074", "ႂ", "ႅ", "ႆ", "ႍ", "ႝ", "ჼ", "U+135D", "U+135E",
     "U+135F", "U+1712", "U+1713", "U+1714", "U+1732", "U+1733", "U+1752", "U+1753", "U+1772", "U+1773", "឴", "឵",
     "ិ", "ី", "ឹ", "ឺ", "ុ", "ូ", "ួ", "ំ", "៉", "៊", "់", "៌",
     "៍", "៎", "៏", "័", "៑", "្", "៓", "ៗ", "៝", "U+180B", "U+180C", "U+180D",
     "U+180E", "U+180F", "U+1843", "ᢅ", "ᢆ", "ᢩ", "U+1920", "U+1921", "U+1922", "U+1927", "U+1928", "U+1932",
     "U+1939", "U+193A", "U+193B", "U+1A17", "U+1A18", "U+1A1B", "U+1A56", "U+1A58", "U+1A59", "U+1A5A", "U+1A5B", "U+1A5C",
     "U+1A5D", "U+1A5E", "U+1A60", "U+1A62", "U+1A65", "U+1A66", "U+1A67", "U+1A68", "U+1A69", "U+1A6A", "U+1A6B", "U+1A6C",
     "U+1A73", "U+1A74", "U+1A75", "U+1A76", "U+1A77", "U+1A78", "U+1A79", "U+1A7A", "U+1A7B", "U+1A7C", "U+1A7F", "ᪧ",
     "᪰", "᪱", "᪲", "᪳", "᪴", "᪵", "᪶", "᪷", "᪸", "᪹", "᪺", "᪻",
     "᪼", "᪽", "᪾", "ᪿ", "ᫀ", "᫁", "᫂", "᫃", "᫄", "᫅", "᫆", "᫇",
     "᫈", "᫉", "᫊", "᫋", "ᫌ", "ᫍ", "ᫎ", "᫏", "᫐", "᫑", "᫒", "᫓",
     "᫔", "᫕", "᫖", "᫗", "᫘", "᫙", "᫚", "᫛", "᫜", "᫝", "᫠", "᫡",
     "᫢", "᫣", "᫤", "᫥", "᫦", "᫧", "᫨", "᫩", "᫪", "᫫", "U+1B00", "U+1B01",
     "U+1B02", "U+1B03", "U+1B34", "U+1B36", "U+1B37", "U+1B38", "U+1B39", "U+1B3A", "U+1B3C", "U+1B42", "U+1B6B", "U+1B6C",
     "U+1B6D", "U+1B6E", "U+1B6F", "U+1B70", "U+1B71", "U+1B72", "U+1B73", "ᮀ", "ᮁ", "ᮢ", "ᮣ", "ᮤ",
     "ᮥ", "ᮨ", "ᮩ", "᮫", "ᮬ", "ᮭ", "᯦", "ᯨ", "ᯩ", "ᯭ", "ᯯ", "ᯰ",
     "ᯱ", "U+1C2C", "U+1C2D", "U+1C2E", "U+1C2F", "U+1C30", "U+1C31", "U+1C32", "U+1C33", "U+1C36", "U+1C37", "U+1C78",
     "U+1C79", "U+1C7A", "U+1C7B", "U+1C7C", "U+1C7D", "᳐", "᳑", "᳒", "᳔", "᳕", "᳖", "᳗",
     "᳘", "᳙", "᳚", "᳛", "᳜", "᳝", "᳞", "᳟", "᳠", "᳢", "᳣", "᳤",
     "᳥", "᳦", "᳧", "᳨", "᳭", "᳴", "᳸", "᳹", "U+1D2C", "U+1D2D", "U+1D2E", "U+1D2F",
     "U+1D30", "U+1D31", "U+1D32", "U+1D33", "U+1D34", "U+1D35", "U+1D36", "U+1D37", "U+1D38", "U+1D39", "U+1D3A", "U+1D3B",
     "U+1D3C", "U+1D3D", "U+1D3E", "U+1D3F", "U+1D40", "U+1D41", "U+1D42", "U+1D43", "U+1D44", "U+1D45", "U+1D46", "U+1D47",
     "U+1D48", "U+1D49", "U+1D4A", "U+1D4B", "U+1D4C", "U+1D4D", "U+1D4E", "U+1D4F", "U+1D50", "U+1D51", "U+1D52", "U+1D53",
     "U+1D54", "U+1D55", "U+1D56", "U+1D57", "U+1D58", "U+1D59", "U+1D5A", "U+1D5B", "U+1D5C", "U+1D5D", "U+1D5E", "U+1D5F",
     "U+1D60", "U+1D61", "U+1D62", "U+1D63", "U+1D64", "U+1D65", "U+1D66", "U+1D67", "U+1D68", "U+1D69", "U+1D6A", "U+1D78",
     "ᶛ", "ᶜ", "ᶝ", "ᶞ", "ᶟ", "ᶠ", "ᶡ", "ᶢ", "ᶣ", "ᶤ", "ᶥ", "ᶦ",
     "ᶧ", "ᶨ", "ᶩ", "ᶪ", "ᶫ", "ᶬ", "ᶭ", "ᶮ", "ᶯ", "ᶰ", "ᶱ", "ᶲ",
     "ᶳ", "ᶴ", "ᶵ", "ᶶ", "ᶷ", "ᶸ", "ᶹ", "ᶺ", "ᶻ", "ᶼ", "ᶽ", "ᶾ",
     "ᶿ", "᷀", "᷁", "᷂", "᷃", "᷄", "᷅", "᷆", "᷇", "᷈", "᷉", "᷊",
     "᷋", "᷌", "᷍", "᷎", "᷏", "᷐", "᷑", "᷒", "ᷓ", "ᷔ", "ᷕ", "ᷖ",
     "ᷗ", "ᷘ", "ᷙ", "ᷚ", "ᷛ", "ᷜ", "ᷝ", "ᷞ", "ᷟ", "ᷠ", "ᷡ", "ᷢ",
     "ᷣ", "ᷤ", "ᷥ", "ᷦ", "ᷧ", "ᷨ", "ᷩ", "ᷪ", "ᷫ", "ᷬ", "ᷭ", "ᷮ",
     "ᷯ", "ᷰ", "ᷱ", "ᷲ", "ᷳ", "ᷴ", "᷵", "᷶", "᷷", "᷸", "᷹", "᷺",
     "᷻", "᷼", "᷽", "᷾", "᷿", "᾽", "᾿", "῀", "῁", "῍", "῎", "῏",
     "῝", "῞", "῟", "῭", "΅", "`", "´", "῾", "U+200B", "U+200C", "U+200D", "U+200E",
     "U+200F", "U+2018", "U+2019", "U+2024", "U+2027", "U+202A", "U+202B", "U+202C", "U+202D", "U+202E", "U+2060", "U+2061",
     "U+2062", "U+2063", "U+2064", "U+2066", "U+2067", "U+2068", "U+2069", "U+206A", "U+206B", "U+206C", "U+206D", "U+206E",
     "U+206F", "U+2071", "U+207F", "ₐ", "ₑ", "ₒ", "ₓ", "ₔ", "ₕ", "ₖ", "ₗ", "ₘ",
     "ₙ", "ₚ", "ₛ", "ₜ", "⃐", "⃑", "⃒", "⃓", "⃔", "⃕", "⃖", "⃗",
     "⃘", "⃙", "⃚", "⃛", "⃜", "⃝", "⃞", "⃟", "⃠", "⃡", "⃢", "⃣",
     "⃤", "⃥", "⃦", "⃧", "⃨", "⃩", "⃪", "⃫", "⃬", "⃭", "⃮", "⃯",
     "⃰", "U+2C7C", "U+2C7D", "⳯", "⳰", "⳱", "U+2D6F", "U+2D7F", "ⷠ", "ⷡ", "ⷢ", "ⷣ",
     "ⷤ", "ⷥ", "ⷦ", "ⷧ", "ⷨ", "ⷩ", "ⷪ", "ⷫ", "ⷬ", "ⷭ", "ⷮ", "ⷯ",
     "ⷰ", "ⷱ", "ⷲ", "ⷳ", "ⷴ", "ⷵ", "ⷶ", "ⷷ", "ⷸ", "ⷹ", "ⷺ", "ⷻ",
     "ⷼ", "ⷽ", "ⷾ", "ⷿ", "U+2E2F", "U+3005", "U+302A", "U+302B", "U+302C", "U+302D", "U+3031", "U+3032",
     "U+3033", "U+3034", "U+3035", "U+303B", "゙", "゚", "゛", "゜", "ゝ", "ゞ", "ー", "ヽ",
     "ヾ", "U+A015", "ꓸ", "ꓹ", "ꓺ", "ꓻ", "ꓼ", "ꓽ", "U+A60C", "U+A66F", "U+A670", "U+A671",
     "U+A672", "U+A674", "U+A675", "U+A676", "U+A677", "U+A678", "U+A679", "U+A67A", "U+A67B", "U+A67C", "U+A67D", "U+A67F",
     "ꚜ", "ꚝ", "ꚞ", "ꚟ", "꛰", "꛱", "U+A700", "U+A701", "U+A702", "U+A703", "U+A704", "U+A705",
     "U+A706", "U+A707", "U+A708", "U+A709", "U+A70A", "U+A70B", "U+A70C", "U+A70D", "U+A70E", "U+A70F", "U+A710", "U+A711",
     "U+A712", "U+A713", "U+A714", "U+A715", "U+A716", "U+A717", "U+A718", "U+A719", "U+A71A", "U+A71B", "U+A71C", "U+A71D",
     "U+A71E", "U+A71F", "U+A720", "U+A721", "U+A770", "ꞈ", "꞉", "꞊", "꟱", "ꟲ", "ꟳ", "ꟴ",
     "ꟸ", "ꟹ", "U+A802", "U+A806", "U+A80B", "U+A825", "U+A826", "U+A82C", "꣄", "ꣅ", "꣠", "꣡",
     "꣢", "꣣", "꣤", "꣥", "꣦", "꣧", "꣨", "꣩", "꣪", "꣫", "꣬", "꣭",
     "꣮", "꣯", "꣰", "꣱", "ꣿ", "U+A926", "U+A927", "U+A928", "U+A929", "U+A92A", "U+A92B", "U+A92C",
     "U+A92D", "U+A947", "U+A948", "U+A949", "U+A94A", "U+A94B", "U+A94C", "U+A94D", "U+A94E", "U+A94F", "U+A950", "U+A951",
     "ꦀ", "ꦁ", "ꦂ", "꦳", "ꦶ", "ꦷ", "ꦸ", "ꦹ", "ꦼ", "ꦽ", "ꧏ", "ꧥ",
     "ꧦ", "U+AA29", "U+AA2A", "U+AA2B", "U+AA2C", "U+AA2D", "U+AA2E", "U+AA31", "U+AA32", "U+AA35", "U+AA36", "U+AA43",
     "U+AA4C", "U+AA70", "U+AA7C", "ꪰ", "ꪲ", "ꪳ", "ꪴ", "ꪷ", "ꪸ", "ꪾ", "꪿", "꫁",
     "ꫝ", "ꫬ", "ꫭ", "ꫳ", "ꫴ", "꫶", "U+AB5B", "U+AB5C", "U+AB5D", "U+AB5E", "U+AB5F", "U+AB69",
     "U+AB6A", "U+AB6B", "ꯥ", "ꯨ", "꯭", "U+FB1E", "﮲", "﮳", "﮴", "﮵", "﮶", "﮷",
     "﮸", "﮹", "﮺", "﮻", "﮼", "﮽", "﮾", "﮿", "﯀", "﯁", "﯂", "U+FE00",
     "U+FE01", "U+FE02", "U+FE03", "U+FE04", "U+FE05", "U+FE06", "U+FE07", "U+FE08", "U+FE09", "U+FE0A", "U+FE0B", "U+FE0C",
     "U+FE0D", "U+FE0E", "U+FE0F", "U+FE13", "U+FE20", "U+FE21", "U+FE22", "U+FE23", "U+FE24", "U+FE25", "U+FE26", "U+FE27",
     "U+FE28", "U+FE29", "U+FE2A", "U+FE2B", "U+FE2C", "U+FE2D", "U+FE2E", "U+FE2F", "U+FE52", "U+FE55", "﻿", "U+FF07",
     "U+FF0E", "U+FF1A", "U+FF3E", "U+FF40", "U+FF70", "ﾞ", "ﾟ", "￣", "￹", "￺", "￻"}

Cased ==
    UNION {{p[1], p[2]} : p \in LatinPairs \cup CasePairs}
        \cup OtherCased \cup {"Σ", "σ", "ς", "U+0130"}

\* A cased letter is the next from place j on, going by step (back or on),
\* with only characters that are passed over in between.
RECURSIVE CasedNext(_, _, _)
CasedNext(t, j, step) ==
    IF j < 1 \/ j > Len(t) THEN FALSE
    ELSE IF t[j] \in CaseIgnorable THEN CasedNext(t, j + step, step)
    ELSE t[j] \in Cased

\* A capital sigma at place i ends a word: a cased letter comes before it
\* and none after it (Final_Sigma).
FinalSigma(t, i) ==
    LET cased == [step \in {0 - 1, 1} |-> CasedNext(t, i + step, step)]
    IN cased[0 - 1] /\ ~cased[1]

\* The small letter the pairs have for a character, the character itself when
\* they have none.
LowerIn(pairs, c) ==
    IF \E p \in pairs : p[1] = c THEN (CHOOSE p \in pairs : p[1] = c)[2] ELSE c

\* What the character at place i becomes: a capital sigma at the end of a
\* word gives the final sigma, the capital I with dot above gives i and the
\* combining dot above.
LowerAt(t, i) ==
    IF t[i] \in BasicLatin THEN <<LowerIn(LatinPairs, t[i])>>
    ELSE IF t[i] = "Σ"
         THEN IF FinalSigma(t, i) THEN <<"ς">> ELSE <<"σ">>
    ELSE IF t[i] = "U+0130" THEN <<"i", "U+0307">>
    ELSE <<LowerIn(CasePairs, t[i])>>

RECURSIVE LowerFrom(_, _)
LowerFrom(t, i) == IF i > Len(t) THEN <<>> ELSE LowerAt(t, i) \o LowerFrom(t, i + 1)

\* String.prototype.toLowerCase
ToLowerCase(t) == LowerFrom(t, 1)

\* The white space and line terminators trim removes: U+0009..U+000D,
\* U+0020, U+00A0, U+1680, U+2000..U+200A, U+2028, U+2029, U+202F, U+205F,
\* U+3000, U+FEFF.
WhiteSpace ==
    {
     "\t", "\n", "U+000B", "\f", "\r", " ", " ", " ", "U+2000", "U+2001", "U+2002", "U+2003",
     "U+2004", "U+2005", "U+2006", "U+2007", "U+2008", "U+2009", "U+200A", "U+2028", "U+2029", "U+202F", "U+205F", "U+3000",
     "﻿"}

RECURSIVE TrimStart(_)
TrimStart(t) == IF t # <<>> /\ Head(t) \in WhiteSpace THEN TrimStart(Tail(t)) ELSE t

RECURSIVE TrimEnd(_)
TrimEnd(t) ==
    IF t # <<>> /\ t[Len(t)] \in WhiteSpace THEN TrimEnd(SubSeq(t, 1, Len(t) - 1)) ELSE t

\* String.prototype.trim
Trim(t) == TrimEnd(TrimStart(t))

\* ------------------------------------------------------------------ values
Null == [k |-> "null"]
Num(n) == [k |-> "num", n |-> n]
Str(t) == [k |-> "str", s |-> t]
List(items) == [k |-> "list", items |-> items]
Bool(b) == [k |-> "bool", b |-> b]

\* The outcome of a call that threw (a TypeError of the runtime), not a value.
Thrown == [k |-> "throw"]
IsThrown(v) == v.k = "throw"

\* ParsingFlag.cancel() and ParsingFlag.retry(message)
CancelFlag == [k |-> "cancel"]
RetryFlag(m) == [k |-> "retry", message |-> m]

\* x == null
IsNull(v) == v.k = "null"

\* ------------------------------------------------------------------ types
\* The type resolver's built-in `integer` caster: the digits of the phrase
\* as a number, null for anything else.
Digits == <<"0", "1", "2", "3", "4", "5", "6", "7", "8", "9">>

DigitValue ==
    [c \in {Digits[i] : i \in 1..Len(Digits)} |->
        (CHOOSE i \in 1..Len(Digits) : Digits[i] = c) - 1]

RECURSIVE DigitsToNumber(_)
DigitsToNumber(t) ==
    IF t = <<>> THEN 0
    ELSE 10 * DigitsToNumber(SubSeq(t, 1, Len(t) - 1)) + DigitValue[t[Len(t)]]

IntegerCaster(phrase) ==
    IF phrase # <<>> /\ \A i \in 1..Len(phrase) : phrase[i] \in DOMAIN DigitValue
    THEN Num(DigitsToNumber(phrase))
    ELSE Null

\* resolver.type(name): the names the resolver has a caster for.
ResolverHas(name) == name \in {"integer"}

\* The resolver's caster on what cast hands it: a string, or (inside compose)
\* the value of another type, of which a number stays that number.
ResolverCall(name, input) ==
    IF input.k = "str" THEN IntegerCaster(input.s)
    ELSE IF input.k = "num" THEN input
    ELSE Null

\* A type is [tag |-> "array", entries |-> sequence of entries],
\* [tag |-> "named", name |-> string], [tag |-> "fn", name |-> a caster
\* function], [tag |-> "regexp", ...] or what a combinator returns (itself a
\* caster function); an entry of an array type is a string or an alias group
\* (an inner array of strings).
ArrayType(entries) == [tag |-> "array", entries |-> entries]
NamedType(name) == [tag |-> "named", name |-> name]
FnType(name) == [tag |-> "fn", name |-> name]
Plain(t) == [isArray |-> FALSE, s |-> t]
Group(ts) == [isArray |-> TRUE, items |-> ts]

\* A regular expression that matches the text `source` literally; global is
\* its g flag.
RegExpType(source, global) == [tag |-> "regexp", source |-> source, global |-> global]

\* typeof type === 'function': caster functions and what the combinators
\* return.
IsFunction(type) == type.tag \in {"fn", "union", "tuple", "validate", "compose"}

\* What the closure variable `type` (`type1`, `type2`) of a combinator holds
\* besides the type it was given: "free" while it is the function as given,
\* "argument" once it is that function bound to an argument, "undefined" once
\* it is that function bound to undefined.
Free == "free"

\* Argument.union, tuple, validate, range and compose
Union(types) == [tag |-> "union", types |-> types]
Tuple(types) == [tag |-> "tuple", types |-> types]
Validate(type, predicate) ==
    [tag |-> "validate", type |-> type, predicate |-> predicate, typeThis |-> Free]
RangePredicate(min, max, inclusive) ==
    [name |-> "range", min |-> min, max |-> max, inclusive |-> inclusive]
Range(type, min, max, inclusive) == Validate(type, RangePredicate(min, max, inclusive))
Compose(type1, type2, ignoreVoid) ==
    [tag |-> "compose", type1 |-> type1, type2 |-> type2, ignoreVoid |-> ignoreVoid,
     type1This |-> Free, type2This |-> Free]

\* t.toLowerCase() === phrase.toLowerCase()
SameText(t, phrase) ==
    LET lower == [i \in 1..2 |-> ToLowerCase(<<t, phrase>>[i])]
    IN lower[1] = lower[2]

\* The texts an entry is compared by: those of a group, or the one string.
Texts(entry) == IF entry.isArray THEN entry.items ELSE <<entry.s>>

\* Mutant of CastEntry: a match gives the phrase as it was typed.
CastEntryAsTyped(entry, phrase) ==
    IF \E i \in 1..Len(Texts(entry)) : SameText(Texts(entry)[i], phrase)
    THEN Str(phrase)
    ELSE Null

\* One entry of the loop: the value it gives for the phrase (entry[0] of a
\* group, the entry itself otherwise), Null if it does not match.
CastEntry(entry, phrase) ==
    IF \E i \in 1..Len(Texts(entry)) : SameText(Texts(entry)[i], phrase)
    THEN Str(Texts(entry)[1])
    ELSE Null

\* for (const entry of type): the first entry that matches returns.
RECURSIVE CastArray(_, _)
CastArray(entries, phrase) ==
    IF entries = <<>> THEN Null
    ELSE LET res == CastEntry(Head(entries), phrase)
         IN IF ~IsNull(res) THEN res ELSE CastArray(Tail(entries), phrase)

\* The caster functions arguments are declared with here:
\*   isYes   phrase => phrase === 'y'
\*   length  phrase => phrase.length
\*   lower   phrase => phrase.toLowerCase()
\*   chars   phrase => phrase.split('')
\*   orNone  phrase => phrase == null ? 'none' : phrase
CasterNames == {"isYes", "length", "lower", "chars", "orNone"}

CallCaster(name, input) ==
    CASE name = "isYes" -> Bool(input = Str(<<"y">>))
      [] name = "length" ->
            IF input.k = "str" THEN Num(Len(input.s))
            ELSE IF input.k = "list" THEN Num(Len(input.items))
            ELSE IF input.k = "null" THEN Thrown
            ELSE Null
      [] name = "lower" -> IF input.k = "str" THEN Str(ToLowerCase(input.s)) ELSE Thrown
      [] name = "chars" ->
            IF input.k = "str" THEN List([i \in 1..Len(input.s) |-> Str(<<input.s[i]>>)])
            ELSE Thrown
      [] name = "orNone" -> IF input.k = "null" THEN Str(<<"n", "o", "n", "e">>) ELSE input

\* if (phrase) of the last lines of cast: the input is truthy.
Truthy(input) ==
    CASE input.k = "null" -> FALSE
      [] input.k = "str" -> input.s # <<>>
      [] input.k = "num" -> input.n # 0
      [] input.k = "bool" -> input.b
      [] OTHER -> TRUE

\* Not-a-number
NaN == [k |-> "nan"]

\* A number that is not an integer, known by the integer just below it.
Between(floor) == [k |-> "frac", floor |-> floor]

\* From this magnitude on a number is only known to be beyond every bound a
\* range is made with (Infinity included).
Big == 100000000

Beyond(negative) == [k |-> "huge", negative |-> negative]

\* The digits of the bases a numeric string is written in.
HexValue ==
    DigitValue @@ [c \in {"a", "b", "c", "d", "e", "f", "A", "B", "C", "D", "E", "F"} |->
                      CASE c \in {"a", "A"} -> 10 [] c \in {"b", "B"} -> 11
                        [] c \in {"c", "C"} -> 12 [] c \in {"d", "D"} -> 13
                        [] c \in {"e", "E"} -> 14 [] c \in {"f", "F"} -> 15]

DigitsOf(base) == {c \in DOMAIN HexValue : HexValue[c] < base}

\* The value of a run of digits in a base, Big when it is Big or more.
RECURSIVE ValueIn(_, _)
ValueIn(t, base) ==
    IF t = <<>> THEN 0
    ELSE LET v == base * ValueIn(SubSeq(t, 1, Len(t) - 1), base) + HexValue[t[Len(t)]]
         IN IF v >= Big THEN Big ELSE v

\* m * 10^e for e >= 0, Big when it is Big or more.
RECURSIVE TimesTen(_, _)
TimesTen(m, e) ==
    IF m = 0 \/ e = 0 THEN m
    ELSE IF m >= Big \/ e > 9 THEN Big
    ELSE TimesTen(IF 10 * m >= Big THEN Big ELSE 10 * m, e - 1)

\* The number of magnitude m and the given sign.
Signed(m, negative) ==
    IF m >= Big THEN Beyond(negative) ELSE Num(IF negative THEN 0 - m ELSE m)

\* A number is an IEEE 754 double: a sign, MantissaBits bits after the first
\* one of its magnitude, and no positive number below 2^-LeastExponent.
MantissaBits == 52
LeastExponent == 1074

\* Half of a fraction, both given by their digits after the point.
Half(t) ==
    LET half == [i \in 1..(Len(t) + 1) |->
                    (IF i <= Len(t) THEN t[i] \div 2 ELSE 0)
                        + (IF i > 1 THEN 5 * (t[i - 1] % 2) ELSE 0)]
    IN SubSeq(half, 1, Len(half))

\* A fraction (not 0) halved n times.
RECURSIVE Halved(_, _)
Halved(t, n) ==
    IF n = 0 THEN t
    ELSE IF n = 1 THEN Half(t)
    ELSE LET first == Halved(t, n \div 2)
         IN IF first = <<>> THEN first ELSE Halved(first, n - (n \div 2))

\* The digits after the point of 2^-j; the longest of them, half of the least
\* positive double, is worked out once.
LeastHalf == Halved(<<5>>, LeastExponent)

HalfPower(j) == IF j = LeastExponent + 1 THEN LeastHalf ELSE Halved(<<5>>, j - 1)

\* Digit i of a fraction given by its digits after the point.
DigitAt(f, i) == IF i <= Len(f) THEN f[i] ELSE 0

\* The fraction a is not above the fraction b: where a digit of a is above
\* that of b, an earlier digit of a is below that of b.
FracNotAbove(a, b) ==
    \A i \in 1..(IF Len(a) > Len(b) THEN Len(a) ELSE Len(b)) :
        DigitAt(a, i) > DigitAt(b, i)
            => \E j \in 1..(i - 1) : DigitAt(a, j) < DigitAt(b, j)

\* The fraction f is not above 2^-j.  A fraction above 2^-(MantissaBits + 2)
\* is above every smaller power, which spares the digits of the smallest.
NotAboveHalf(f, j) ==
    /\ j > MantissaBits + 2 => FracNotAbove(f, HalfPower(MantissaBits + 2))
    /\ FracNotAbove(f, HalfPower(j))

\* The digits of 1 - f for a fraction f that is not 0.
OneMinus(f) ==
    LET last == CHOOSE i \in 1..Len(f) : f[i] # 0 /\ \A j \in (i + 1)..Len(f) : f[j] = 0
    IN [i \in 1..last |-> IF i < last THEN 9 - f[i] ELSE 10 - f[i]]

\* The power of two a positive integer below 2^27 starts with.
Exponent(n) == CHOOSE k \in 0..26 : 2^k <= n /\ n < 2^(k + 1)

\* Half the distance from the integer n to the next double above it and to
\* the next double below it, as the j of 2^-j.
HalfStepAbove(n) ==
    IF n = 0 THEN LeastExponent + 1 ELSE MantissaBits + 1 - Exponent(n)

HalfStepBelow(n) ==
    IF n = 2^Exponent(n) THEN MantissaBits + 2 - Exponent(n)
    ELSE MantissaBits + 1 - Exponent(n)

\* The number of whole part m and fraction f (its digits after the point,
\* not all 0) as the nearest double: a value no further from an integer than
\* half the step to the next double is that integer (a tie goes to the
\* integer, whose mantissa is even).
Nearest(m, f, negative) ==
    IF m >= Big THEN Beyond(negative)
    ELSE IF NotAboveHalf(f, HalfStepAbove(m)) THEN Signed(m, negative)
    ELSE IF NotAboveHalf(OneMinus(f), HalfStepBelow(m + 1)) THEN Signed(m + 1, negative)
    ELSE Between(IF negative THEN 0 - m - 1 ELSE m)

\* The digits after the point of the decimal number whose digits are
\* `digits`, the point after the first `point` of them (before them, with
\* zeros in between, when point is negative).
FractionOf(digits, point) ==
    IF point >= Len(digits) THEN <<>>
    ELSE IF point >= 0 THEN [i \in 1..(Len(digits) - point) |-> DigitValue[digits[i + point]]]
    ELSE [i \in 1..(Len(digits) - point) |->
             IF i <= 0 - point THEN 0 ELSE DigitValue[digits[i + point]]]

\* The whole part of that number, Big when it is Big or more.
WholeOf(digits, point) ==
    IF point <= 0 THEN 0
    ELSE IF point <= Len(digits) THEN ValueIn(SubSeq(digits, 1, point), 10)
    ELSE TimesTen(ValueIn(digits, 10), point - Len(digits))

\* The decimal number whose digits are `digits`, the point after the first
\* `point` of them.  A number with more zeros after the point than the half
\* of the least positive double has digits is 0.
DecimalValue(digits, point, negative) ==
    IF \A i \in 1..Len(digits) : i > point => digits[i] = "0"
    THEN Signed(WholeOf(digits, point), negative)
    ELSE IF 0 - point > Len(LeastHalf) THEN Num(0)
    ELSE Nearest(WholeOf(digits, point), FractionOf(digits, point), negative)

\* The first place of t that holds one of the characters, 0 when none does.
FirstOf(t, chars) ==
    IF \E i \in 1..Len(t) : t[i] \in chars
    THEN CHOOSE i \in 1..Len(t) : t[i] \in chars /\ \A j \in 1..(i - 1) : t[j] \notin chars
    ELSE 0

IsSign(c) == c \in {"+", "-"}

\* The part of t before place i (all of t when i is 0) and the part after it
\* (nothing when i is 0).
PartBefore(t, i) == IF i = 0 THEN t ELSE SubSeq(t, 1, i - 1)
PartAfter(t, i) == IF i = 0 THEN <<>> ELSE SubSeq(t, i + 1, Len(t))

AllDigits(t) == \A i \in 1..Len(t) : t[i] \in DigitsOf(10)

\* A decimal literal of whole part, fraction and exponent: at least one
\* digit in whole part and fraction, and at least one in an exponent.
Literal(whole, fraction, hasExponent, expDigits, expNegative, negative) ==
    IF /\ whole \o fraction # <<>>
       /\ AllDigits(whole \o fraction)
       /\ hasExponent => expDigits # <<>>
       /\ AllDigits(expDigits)
    THEN DecimalValue(whole \o fraction,
                      IF expNegative THEN Len(whole) - ValueIn(expDigits, 10)
                      ELSE Len(whole) + ValueIn(expDigits, 10),
                      negative)
    ELSE NaN

\* The mantissa split at its point, the exponent at its sign.
Mantissa(mantissa, hasExponent, exponent, negative) ==
    Literal(PartBefore(mantissa, FirstOf(mantissa, {"."})),
            PartAfter(mantissa, FirstOf(mantissa, {"."})),
            hasExponent,
            IF exponent # <<>> /\ IsSign(exponent[1]) THEN Tail(exponent) ELSE exponent,
            exponent # <<>> /\ exponent[1] = "-",
            negative)

\* StrDecimalLiteral without its sign: digits with at most one point and at
\* least one digit, then an optional exponent.
UnsignedDecimal(t, negative) ==
    Mantissa(PartBefore(t, FirstOf(t, {"e", "E"})), FirstOf(t, {"e", "E"}) # 0,
             PartAfter(t, FirstOf(t, {"e", "E"})), negative)

Infinite == <<"I", "n", "f", "i", "n", "i", "t", "y">>

\* The digits after a prefix 0x, 0o or 0b as a number, NaN when there is
\* none or one is not of the base.
Prefixed(t, base) ==
    IF t # <<>> /\ \A i \in 1..Len(t) : t[i] \in DigitsOf(base)
    THEN Signed(ValueIn(t, base), FALSE)
    ELSE NaN

\* The base a prefix stands for, 10 when the text has none.
BaseOf(s) ==
    IF Len(s) < 2 \/ s[1] # "0" THEN 10
    ELSE CASE s[2] \in {"x", "X"} -> 16
           [] s[2] \in {"o", "O"} -> 8
           [] s[2] \in {"b", "B"} -> 2
           [] OTHER -> 10

\* A numeric string without white space around it.
StrNumericLiteral(s) ==
    IF s = <<>> THEN Num(0)
    ELSE IF (IF IsSign(s[1]) THEN Tail(s) ELSE s) = Infinite THEN Beyond(s[1] = "-")
    ELSE IF BaseOf(s) # 10 THEN Prefixed(SubSeq(s, 3, Len(s)), BaseOf(s))
    ELSE UnsignedDecimal(IF IsSign(s[1]) THEN Tail(s) ELSE s, s[1] = "-")

\* The number a string is compared as (StringToNumber).
StringToNumber(t) == StrNumericLiteral(Trim(t))

\* The digits of a number that is not negative.
RECURSIVE DigitsOfNumber(_)
DigitsOfNumber(n) ==
    IF n < 10 THEN <<Digits[n + 1]>>
    ELSE Append(DigitsOfNumber(n \div 10), Digits[(n % 10) + 1])

\* String(value), and the text of an item in Array.prototype.join: null is
\* the empty text there.
RECURSIVE ToText(_)
RECURSIVE JoinFrom(_, _)
JoinFrom(items, i) ==
    IF i > Len(items) THEN <<>>
    ELSE (IF i > 1 THEN <<",">> ELSE <<>>)
            \o (IF IsNull(items[i]) THEN <<>> ELSE ToText(items[i]))
            \o JoinFrom(items, i + 1)

ToText(v) ==
    CASE v.k = "str" -> v.s
      [] v.k = "num" -> IF v.n < 0 THEN <<"-">> \o DigitsOfNumber(0 - v.n)
                        ELSE DigitsOfNumber(v.n)
      [] v.k = "bool" -> IF v.b THEN <<"t", "r", "u", "e">> ELSE <<"f", "a", "l", "s", "e">>
      [] v.k = "null" -> <<"n", "u", "l", "l">>
      [] v.k = "list" -> JoinFrom(v.items, 1)
      [] OTHER -> <<"[", "o", "b", "j", "e", "c", "t", " ", "O", "b", "j", "e", "c", "t", "]">>

\* The number a value is compared as by >=, <= and <.
ToNumber(v) ==
    CASE v.k = "num" -> v
      [] v.k = "bool" -> Num(IF v.b THEN 1 ELSE 0)
      [] v.k = "null" -> Num(0)
      [] v.k \in {"str", "list"} -> StringToNumber(IF v.k = "str" THEN v.s ELSE ToText(v))
      [] OTHER -> NaN

\* x >= n, x <= n and x < n for what ToNumber gives and an integer n; every
\* comparison with NaN is false.
NotBelow(x, n) ==
    CASE x.k = "num" -> x.n >= n
      [] x.k = "frac" -> x.floor >= n
      [] x.k = "huge" -> ~x.negative
      [] OTHER -> FALSE

NotAbove(x, n) ==
    CASE x.k = "num" -> x.n <= n
      [] x.k = "frac" -> x.floor < n
      [] x.k = "huge" -> x.negative
      [] OTHER -> FALSE

Below(x, n) ==
    CASE x.k = "num" -> x.n < n
      [] x.k = "frac" -> x.floor < n
      [] x.k = "huge" -> x.negative
      [] OTHER -> FALSE

\* x >= min && (inclusive ? x <= max : x < max)
InRange(x, min, max, inclusive) ==
    NotBelow(x, min) /\ (IF inclusive THEN NotAbove(x, max) ELSE Below(x, max))

\* predicate.call(this, res, phrase, message, args) of validate, for the
\* predicate range gives it.
Holds(predicate, res) ==
    InRange(ToNumber(res), predicate.min, predicate.max, predicate.inclusive)

\* One call of Argument.cast made by a combinator: for which of its types
\* (the place in the list of a union or tuple, 1 for the type of validate and
\* for type1, 2 for type2), with what input, and what the call gave.
Call(i, input, value) == [i |-> i, input |-> input, value |-> value]

\* A run of Argument.cast: its value (Thrown when it threw), the calls of
\* Argument.cast it made itself, in order, and the type as the run leaves it
\* (the closure variables of its combinators may hold bound functions now).
Run(value, calls, type) == [value |-> value, calls |-> calls, type |-> type]

\* An entry of an array type that compares the phrase with a text: a string,
\* or a group with a text in it (entry.some calls nothing for an empty group).
Compares(entry) == ~entry.isArray \/ entry.items # <<>>

\* The array arm of cast on an input that is no string: phrase.toLowerCase()
\* throws at the first entry that compares; null when no entry does.
CastArrayOther(entries) ==
    IF \E i \in 1..Len(entries) : Compares(entries[i]) THEN Thrown ELSE Null

\* The text of the pattern stands at place i of the phrase; the empty text
\* stands at every place and at the end.
StandsAt(source, s, i) ==
    /\ i + Len(source) - 1 <= Len(s)
    /\ \A j \in 1..Len(source) : s[i + j - 1] = source[j]

\* The first place from i on where the pattern matches, 0 when there is none.
NextMatch(source, s, i) ==
    LET places == {j \in i..(Len(s) + 1) : StandsAt(source, s, j)}
    IN IF places = {} THEN 0 ELSE CHOOSE j \in places : \A k \in places : j <= k

\* The outcome of a call that never returns: the loop of exec goes on for
\* ever (until the memory for `matches` runs out).
Hangs == [k |-> "hang"]
IsHung(v) == v.k = "hang"

\* while ((matched = type.exec(phrase)) != null) matches.push(matched), from
\* lastIndex i - 1 on: a match sets lastIndex to its end, so an empty match
\* leaves lastIndex where it is and the loop finds it again.
RECURSIVE ExecLoop(_, _, _, _)
ExecLoop(source, s, i, matches) ==
    LET at == NextMatch(source, s, i)
    IN IF at = 0 THEN List(matches)
       ELSE IF source = <<>> THEN Hangs
       ELSE ExecLoop(source, s, at + Len(source), Append(matches, List(<<Str(source)>>)))

\* phrase.match(type) with the g flag: the texts of all matches, the search
\* going on one place after an empty match.
RECURSIVE MatchAll(_, _, _)
MatchAll(source, s, i) ==
    LET at == NextMatch(source, s, i)
    IN IF at = 0 THEN <<>>
       ELSE <<Str(source)>>
                \o MatchAll(source, s, IF source = <<>> THEN at + 1 ELSE at + Len(source))

\* { match, matches }
Matched(match, matches) == [k |-> "match", match |-> match, matches |-> matches]

\* The regular-expression arm of cast on a string: null without a match;
\* match is what phrase.match(type) gives (the first match, or with the g
\* flag the texts of all matches), matches what the exec loop collected.
CastRegExp(type, phrase) ==
    IF NextMatch(type.source, phrase, 1) = 0 THEN Null
    ELSE IF ~type.global THEN Matched(List(<<Str(type.source)>>), List(<<>>))
    ELSE LET matches == ExecLoop(type.source, phrase, 1, <<>>)
         IN IF IsHung(matches) THEN Hangs
            ELSE Matched(List(MatchAll(type.source, phrase, 1)), matches)

\* if (typeof type === 'function') entry = entry.bind(this) in the loops of
\* union and tuple: no `type` is in scope there, so the test is false and the
\* entry is handed to Argument.cast as it is; cast calls it without a receiver.
EntryBound(bound) == FALSE

\* if (typeof type === 'function') type = type.bind(this) of validate and
\* compose: the closure variable keeps the bound function, so the type has
\* the receiver of the first call from then on (binding a bound function
\* again does not change its receiver).  The new content of the variable.
TypeBound(type, held, bound) ==
    IF IsFunction(type) /\ held = Free
    THEN IF bound THEN "argument" ELSE "undefined"
    ELSE held

\* The function the variable holds is called with an argument as receiver.
HeldBound(held) == held = "argument"

\* if (res == null && !ignoreVoid) return null
ComposeStops(res, ignoreVoid) == IsNull(res) /\ ~ignoreVoid

\* if (res != null) return res of union's loop
UnionTakes(res) == ~IsNull(res)

\* The arms of cast that call no combinator: an array, a caster function, a
\* regular expression, a type of the resolver, any other name.
CastPlain(type, input) ==
    CASE type.tag = "array" ->
            IF input.k = "str" THEN CastArray(type.entries, input.s)
            ELSE CastArrayOther(type.entries)
      [] type.tag = "fn" -> CallCaster(type.name, input)
      [] type.tag = "regexp" ->
            IF input.k = "str" THEN CastRegExp(type, input.s) ELSE Thrown
      [] type.tag = "named" ->
            IF ResolverHas(type.name) THEN ResolverCall(type.name, input)
            ELSE IF Truthy(input) THEN input
            ELSE Null

\* The types a combinator was made with, by their place, and the combinator
\* with another type at a place.
Child(type, i) ==
    CASE type.tag \in {"union", "tuple"} -> type.types[i]
      [] type.tag = "validate" -> type.type
      [] type.tag = "compose" -> IF i = 1 THEN type.type1 ELSE type.type2

WithChild(type, i, new) ==
    CASE type.tag \in {"union", "tuple"} -> [type EXCEPT !.types[i] = new]
      [] type.tag = "validate" -> [type EXCEPT !.type = new]
      [] type.tag = "compose" ->
            IF i = 1 THEN [type EXCEPT !.type1 = new] ELSE [type EXCEPT !.type2 = new]

\* The type a path of places leads to, and the whole with another type there.
RECURSIVE At(_, _)
At(type, path) == IF path = <<>> THEN type ELSE At(Child(type, Head(path)), Tail(path))

RECURSIVE Put(_, _, _)
Put(type, path, new) ==
    IF path = <<>> THEN new
    ELSE WithChild(type, Head(path), Put(Child(type, Head(path)), Tail(path), new))

\* A typeFn of a combinator that waits at its await: the path to the
\* combinator, the place i of the type whose cast it awaits, the input of
\* that cast, and the results a tuple has collected.
Frame(path, i, input, results) ==
    [path |-> path, i |-> i, input |-> input, results |-> results]

\* How far a cast has come: the types as the closures hold them now, the
\* typeFns that wait (the outermost first), the value the innermost of them
\* is about to get from its await (the value of the cast when none waits),
\* and the calls the outermost has got a value from.
Stage(types, stack, value, calls) ==
    [types |-> types, stack |-> stack, value |-> value, calls |-> calls]

\* Argument.cast(type, ...) for the type at `path` up to the first await that
\* has to wait: cast calls a typeFn, the typeFn binds its first type, reads
\* this.handler (which throws without a receiver) and calls cast for that
\* type, and so on down to a type that calls no combinator.
RECURSIVE Enter(_, _, _, _, _, _)
Enter(types, path, input, bound, stack, calls) ==
    LET type == At(types, path)
        waits == Append(stack, Frame(path, 1, input, <<>>))
    IN CASE type.tag \in {"union", "tuple"} ->
              IF type.types = <<>>
              THEN Stage(types, stack, IF type.tag = "union" THEN Null ELSE List(<<>>), calls)
              ELSE IF ~bound THEN Stage(types, stack, Thrown, calls)
              ELSE Enter(types, Append(path, 1), input, EntryBound(bound), waits, calls)
         [] type.tag = "validate" ->
              LET held == TypeBound(type.type, type.typeThis, bound)
                  kept == Put(types, path, [type EXCEPT !.typeThis = held])
              IN IF ~bound THEN Stage(kept, stack, Thrown, calls)
                 ELSE Enter(kept, Append(path, 1), input, HeldBound(held), waits, calls)
         [] type.tag = "compose" ->
              LET held == TypeBound(type.type1, type.type1This, bound)
                  kept == Put(types, path, [type EXCEPT !.type1This = held])
              IN IF ~bound THEN Stage(kept, stack, Thrown, calls)
                 ELSE Enter(kept, Append(path, 1), input, HeldBound(held), waits, calls)
         [] OTHER -> Stage(types, stack, CastPlain(type, input), calls)

\* What a typeFn does after its await: it gives a value back, or it awaits
\* the cast of its next type: the closure variables as it leaves them, itself
\* as it waits then, and whether that type is called with a receiver.
Gives(value) == [gives |-> TRUE, value |-> value]
Awaits(types, frame, bound) ==
    [gives |-> FALSE, types |-> types, frame |-> frame, bound |-> bound]

\* The typeFn at `path` does that: the value goes to the typeFn that waits
\* for it, or the cast of the next type is entered.
Proceed(types, below, path, made, does) ==
    IF does.gives THEN Stage(types, below, does.value, made)
    ELSE Enter(does.types, Append(path, does.frame.i), does.frame.input, does.bound,
               Append(below, does.frame), made)

\* The innermost waiting typeFn goes on after its await with the value, up
\* to its return or its next await.  A typeFn that waits has a receiver.
Resume(types, stack, value, calls) ==
    LET f == stack[Len(stack)]
        below == SubSeq(stack, 1, Len(stack) - 1)
        type == At(types, f.path)
    IN Proceed(types, below, f.path,
            IF Len(stack) = 1 THEN Append(calls, Call(f.i, f.input, value)) ELSE calls,
            IF IsThrown(value) THEN Gives(Thrown)
            ELSE CASE type.tag = "union" ->
                        IF UnionTakes(value) THEN Gives(value)
                        ELSE IF f.i = Len(type.types) THEN Gives(Null)
                        ELSE Awaits(types, [f EXCEPT !.i = f.i + 1], EntryBound(TRUE))
                   [] type.tag = "tuple" ->
                        IF IsNull(value) THEN Gives(Null)
                        ELSE IF f.i = Len(type.types)
                             THEN Gives(List(Append(f.results, value)))
                        ELSE Awaits(types,
                                    [f EXCEPT !.i = f.i + 1,
                                              !.results = Append(f.results, value)],
                                    EntryBound(TRUE))
                   [] type.tag = "validate" ->
                        IF IsNull(value) \/ ~Holds(type.predicate, value)
                        THEN Gives(Null)
                        ELSE Gives(value)
                   [] type.tag = "compose" ->
                        IF f.i = 2 THEN Gives(value)
                        ELSE IF ComposeStops(value, type.ignoreVoid) THEN Gives(Null)
                        ELSE LET held == TypeBound(type.type2, type.type2This, TRUE)
                             IN Awaits(Put(types, f.path, [type EXCEPT !.type2This = held]),
                                       [f EXCEPT !.i = 2, !.input = value],
                                       HeldBound(held)))

\* A cast is over when no typeFn waits; it never is once a call hangs.
Over(stage) == stage.stack = <<>> /\ ~IsHung(stage.value)

\* A cast that nothing else runs in between, to its end.
RECURSIVE Finish(_)
Finish(stage) ==
    IF stage.stack = <<>> \/ IsHung(stage.value) THEN stage
    ELSE Finish(Resume(stage.types, stage.stack, stage.value, stage.calls))

\* Argument.cast(type, resolver, phrase, message, args) on any input, with no
\* other call in between; bound tells whether a function type is called with
\* an argument as its receiver.
RunOf(stage) == Run(stage.value, stage.calls, stage.types)

CastRun(type, input, bound) == RunOf(Finish(Enter(type, <<>>, input, bound, <<>>, <<>>)))

\* this.cast(phrase, message, args) of an argument: the constructor has bound
\* a function type to the argument.
Cast(type, phrase) == CastRun(type, Str(phrase), TRUE).value

\* ------------------------------------------------------------------ prompt options
\* A prompt-options layer is a function from option names to values; NoPrompt
\* is a layer that is not there (null/undefined), EmptyOptions is {}.
NoPrompt == [none |-> TRUE]
EmptyOptions == [x \in {} |-> TRUE]
IsNone(layer) == "none" \in DOMAIN layer

\* layer && layer.optional
OptionalIn(layer) ==
    /\ ~IsNone(layer)
    /\ "optional" \in DOMAIN layer
    /\ layer.optional

\* Object.assign(target, source): the source's own fields override.
Assign(target, source) ==
    IF IsNone(source) THEN target ELSE source @@ target

Infinity == [k |-> "inf"]

\* n < limit, where limit is a number or Infinity
LessThan(n, limit) == limit.k = "inf" \/ n < limit.n

\* n <= limit, where limit is a number or Infinity
AtMost(n, limit) == limit.k = "inf" \/ n <= limit.n

CancelWord == <<"c", "a", "n", "c", "e", "l">>
StopWord == <<"s", "t", "o", "p">>

\* The documented defaults of ArgumentPromptOptions, which the handler's
\* defaultPrompt carries.
HandlerDefaults ==
    [retries |-> 1, cancelWord |-> CancelWord, stopWord |-> StopWord,
     optional |-> FALSE, infinite |-> FALSE, limit |-> Infinity, breakout |-> TRUE,
     start |-> "", retry |-> "", timeout |-> "", ended |-> "", cancel |-> ""]

\* ------------------------------------------------------------------ inputs
Sessions == {1, 2}

IntegerType == NamedType("integer")
StringType == NamedType("string")
WordsType == ArrayType(<<Plain(<<"1">>), Group(<< <<"y">>, <<"X">>, <<"c", "a", "n", "c", "e", "l">> >>)>>)

RetriesLayers ==
    {EmptyOptions} \cup {("retries" :> r) : r \in (0..MaxRetries) \ {HandlerDefaults.retries}}
InfiniteLayers ==
    {EmptyOptions, ("infinite" :> TRUE)}
        \cup {("infinite" :> TRUE) @@ ("limit" :> Num(l)) : l \in 1..MaxLimit}
BreakoutLayers == {EmptyOptions, ("breakout" :> FALSE)}
TextLayers ==
    {EmptyOptions,
     [start |-> "start?", retry |-> "retry?", timeout |-> "timeout.",
      ended |-> "ended.", cancel |-> "cancel."]}

\* A cancel word and a stop word of the argument's own: a word written in
\* capitals that ends in a sigma, and a small digraph letter.
WordLayers ==
    {EmptyOptions, [cancelWord |-> <<"Ɓ", "Σ">>, stopWord |-> <<"ǆ">>]}

DefaultSuppliers == {[fn |-> FALSE, val |-> Num(9)], [fn |-> TRUE, val |-> Num(9)]}

\* Arguments that exercise the prompt loop: the handler carries the defaults,
\* the argument's own prompt overrides some of them. The seed phrase that
\* misses is a text no reply repeats.
CollectArguments ==
    {[match |-> m, type |-> ty, default |-> [fn |-> FALSE, val |-> Num(9)],
      prompt |-> r @@ i @@ b @@ t @@ w, commandPrompt |-> NoPrompt,
      handlerPrompt |-> HandlerDefaults, phrase |-> ph] :
        m \in {"phrase", "separate"}, ty \in {IntegerType, StringType},
        r \in RetriesLayers, i \in InfiniteLayers, b \in BreakoutLayers, t \in TextLayers,
        w \in WordLayers, ph \in {<<>>, <<"y">>, <<"1">>}}

\* Arguments that exercise process: which layers exist and which mark optional.
ProcessArguments ==
    {[match |-> "phrase", type |-> ty, default |-> d,
      prompt |-> p, commandPrompt |-> c, handlerPrompt |-> h, phrase |-> ph] :
        ty \in {IntegerType, StringType, WordsType}, d \in DefaultSuppliers,
        p \in {NoPrompt, EmptyOptions, ("optional" :> TRUE), ("optional" :> FALSE)},
        c \in {NoPrompt, ("optional" :> TRUE), ("retries" :> 0)},
        h \in {NoPrompt, HandlerDefaults, [HandlerDefaults EXCEPT !.optional = TRUE]},
        ph \in {<<>>, <<" ">>, <<"\t", "x", "\n">>, <<"1">>}}

\* Arguments whose type is a caster function that gives values other than
\* null for every phrase, among them false, 0, '' and [].
FalsyArguments ==
    {[match |-> "phrase", type |-> FnType(f), default |-> d,
      prompt |-> p, commandPrompt |-> NoPrompt, handlerPrompt |-> HandlerDefaults,
      phrase |-> ph] :
        f \in {"isYes", "length", "lower", "chars"}, d \in DefaultSuppliers,
        p \in {NoPrompt, EmptyOptions},
        ph \in {<<>>, <<" ">>, <<"y">>, <<"X", " ">>}}

\* Arguments whose prompt configures any of the three texts of the ways a
\* prompt ends with Cancel, and no retry.
TerminalLayers ==
    {[timeout |-> t, ended |-> e, cancel |-> c] :
        t \in {"", "timeout."}, e \in {"", "ended."}, c \in {"", "cancel."}}

TerminalArguments ==
    {[match |-> "phrase", type |-> IntegerType, default |-> [fn |-> FALSE, val |-> Num(9)],
      prompt |-> ("retries" :> 0) @@ t, commandPrompt |-> NoPrompt,
      handlerPrompt |-> HandlerDefaults, phrase |-> <<>>] : t \in TerminalLayers}

\* An argument the program can be run with: match mode `separate` is only
\* of interest for an infinite prompt, and an argument has a prompt of its own
\* only under a handler that supplies the defaults of the options it leaves out.
Arguments ==
    {a \in CollectArguments \cup ProcessArguments \cup FalsyArguments
            \cup TerminalArguments :
        /\ (a.match = "separate" => ~IsNone(a.prompt) /\ "infinite" \in DOMAIN a.prompt)
        /\ (IsNone(a.handlerPrompt) => IsNone(a.prompt))}

\* What a user types as a reply.
ReplyTexts ==
    {<<"C", "a", "n", "c", "e", "L">>, <<"S", "T", "O", "P">>, <<"1">>, <<"x">>}

\* What a user types where the argument has words of its own: the cancel
\* word in small letters (the small letter of its first capital is U+0253),
\* the stop word as a title-case letter, and two other texts.
WordReplyTexts ==
    {<<"U+0253", "ς">>, <<"ǅ">>, <<"1">>, <<"x">>}

RepliesTo(a) ==
    IF ~IsNone(a.prompt) /\ "cancelWord" \in DOMAIN a.prompt THEN WordReplyTexts
    ELSE ReplyTexts

\* ------------------------------------------------------------------ state
VARIABLES
    arg,      \* per session: the argument (with its command's and handler's
              \* prompt defaults), the phrase process is called with, and the
              \* channel and author of the message that called the command
    ses,      \* per session: the position in process/collect/promptOne and
              \* the locals of collect
    prompts,  \* the handler's registry of (channel, author) pairs in a prompt
    cast,     \* a call of Argument.cast on a type and a phrase, and its outcome
    perm      \* a call of ClientUtil.resolvePermissionNumber and its outcome

vars == <<arg, ses, prompts, cast, perm>>

\* The user the client is logged in as: the author of what the program sends.
ClientUser == 0

Channels == {1, 2}
Users == {ClientUser, 1, 2}

\* Where the message that called the command was posted, and by whom.
Place(channel, author) == [channel |-> channel, author |-> author]

\* The message that called the command.
Message(s) ==
    [id |-> 0, channel |-> arg[s].channel, author |-> arg[s].author,
     content |-> <<"!">> \o arg[s].phrase]

\* An entry of the session's trace.
Ev(ev, phase, phrase, n) == [ev |-> ev, phase |-> phase, phrase |-> phrase, n |-> n]

NoMessage == [id |-> -1, channel |-> 0, author |-> 0, content |-> <<>>]

\* The id of the argument, under which the command keeps its result.
ArgumentId == "self"

\* The args process is called with: the results of the arguments before this
\* one, by id.
PriorResults == ("before" :> Num(7))

Idle(pc) ==
    [pc |-> pc, phrase |-> <<>>, promptOptions |-> EmptyOptions, isInfinite |-> FALSE,
     additionalRetry |-> 0, values |-> <<>>, retryCount |-> 0, prevMessage |-> NoMessage,
     input |-> NoMessage, sentStart |-> NoMessage, replies |-> <<>>, returnValue |-> Null,
     result |-> Null, args |-> PriorResults, log |-> <<>>]

\* Session 2 does not run under Spec.
OffArgument ==
    [match |-> "phrase", type |-> IntegerType, default |-> [fn |-> FALSE, val |-> Num(9)],
     prompt |-> EmptyOptions, commandPrompt |-> NoPrompt,
     handlerPrompt |-> HandlerDefaults, phrase |-> <<>>]

\* No call of Argument.cast is looked at.
NoCast == [pc |-> "off"]

\* No call of resolvePermissionNumber is looked at.
NoResolve == [pc |-> "off"]

Init ==
    /\ \E a \in Arguments :
         arg = [s \in Sessions |-> IF s = 1 THEN a @@ Place(1, 1)
                                   ELSE OffArgument @@ Place(2, 2)]
    /\ ses = [s \in Sessions |-> IF s = 1 THEN Idle("process") ELSE Idle("off")]
    /\ prompts = {}
    /\ cast = NoCast
    /\ perm = NoResolve

\* ------------------------------------------------------------------ process
\* Mutant of IsOptional: only the argument's own prompt is asked.
IsOptionalOwn(a) == OptionalIn(a.prompt)

\* isOptional of process: any of the three layers marks optional.
IsOptional(a) ==
    OptionalIn(a.prompt) \/ OptionalIn(a.commandPrompt) \/ OptionalIn(a.handlerPrompt)

\* Mutant of ShouldCollect: any layer's prompt configuration counts.
ShouldCollectMerged(a) ==
    ~IsNone(a.prompt) \/ ~IsNone(a.commandPrompt) \/ ~IsNone(a.handlerPrompt)

\* if (this.prompt): the argument has a prompt of its own.
ShouldCollect(a) == ~IsNone(a.prompt)

\* Mutant of CastMissed: every falsy result counts as a miss.
CastMissedFalsy(res) == ~Truthy(res)

\* if (res == null) of process
CastMissed(res) == IsNull(res)

\* typeof this.default === 'function' ? this.default(message, args) : this.default
DefaultEvent(a) == Ev("default", IF a.default.fn THEN "call" ELSE "literal", <<>>, 0)

\* The session record after process: what it returns, or the call of collect.
ProcessStep(a, me) ==
    LET phrase == Trim(a.phrase) IN
    IF phrase = <<>> /\ IsOptional(a)
    THEN [me EXCEPT !.pc = "done", !.phrase = phrase, !.result = a.default.val,
                    !.log = Append(@, DefaultEvent(a))]
    ELSE LET res == Cast(a.type, phrase)
             log == Append(me.log, Ev("cast", "process", phrase, IF IsNull(res) THEN 0 ELSE 1))
         IN IF IsThrown(res)
            THEN [me EXCEPT !.pc = "threw", !.phrase = phrase, !.log = log]
            ELSE IF CastMissed(res)
            THEN IF ShouldCollect(a)
                 THEN [me EXCEPT !.pc = "collect", !.phrase = phrase, !.log = log]
                 ELSE [me EXCEPT !.pc = "done", !.phrase = phrase, !.result = a.default.val,
                                 !.log = Append(log, DefaultEvent(a))]
            ELSE [me EXCEPT !.pc = "done", !.phrase = phrase, !.result = res, !.log = log]

Process(s) ==
    /\ ses[s].pc = "process"
    /\ ses' = [ses EXCEPT ![s] = ProcessStep(arg[s], ses[s])]
    /\ UNCHANGED <<arg, prompts, cast, perm>>

\* ------------------------------------------------------------------ collect
\* The three Object.assign calls of collect.
MergedOptions(a) ==
    Assign(Assign(Assign(EmptyOptions, a.handlerPrompt), a.commandPrompt),
           IF IsNone(a.prompt) THEN EmptyOptions ELSE a.prompt)

\* Mutant of IsInfinite: the match mode and the seed are not looked at.
IsInfiniteMerged(promptOptions, match, commandInput) == promptOptions.infinite

IsInfinite(promptOptions, match, commandInput) ==
    promptOptions.infinite /\ (IF match = "separate" THEN commandInput = <<>> ELSE TRUE)

\* Number(Boolean(commandInput))
AdditionalRetry(commandInput) == IF commandInput # <<>> THEN 1 ELSE 0

\* handler.addPrompt and handler.removePrompt
AddPrompt(registry, channel, author) == registry \cup {<<channel, author>>}
RemovePrompt(registry, channel, author) == registry \ {<<channel, author>>}

\* The registry after collect's call this.handler.addPrompt(...)
RegistryAtEntry(registry, message) == AddPrompt(registry, message.channel, message.author)

\* Mutant of RegistryAtReturn: collect returns without removePrompt.
RegistryKeptAtReturn(registry, message) == registry

\* The registry after collect's call this.handler.removePrompt(...)
RegistryAtReturn(registry, message) == RemovePrompt(registry, message.channel, message.author)

\* The registry when promptOne rejects: collect has no handler for it.
RegistryAtThrow(registry, message) == registry

\* if (isInfinite) args[this.id] = values: args holds the very list promptOne
\* pushes to.
ArgsWith(args, isInfinite, values) ==
    IF isInfinite THEN (ArgumentId :> List(values)) @@ args ELSE args

Collect(s) ==
    /\ ses[s].pc = "collect"
    /\ LET me == ses[s]
           a == arg[s]
           promptOptions == MergedOptions(a)
           commandInput == me.phrase
       IN ses' = [ses EXCEPT ![s] =
                    [me EXCEPT !.pc = "send",
                               !.promptOptions = promptOptions,
                               !.isInfinite = IsInfinite(promptOptions, a.match, commandInput),
                               !.additionalRetry = AdditionalRetry(commandInput),
                               !.values = <<>>,
                               !.args = ArgsWith(@, IsInfinite(promptOptions, a.match,
                                                               commandInput), <<>>),
                               !.retryCount = 1 + AdditionalRetry(commandInput),
                               !.prevMessage = Message(s),
                               !.log = Append(@, Ev("register", "", <<>>, 0))]]
    /\ prompts' = RegistryAtEntry(prompts, Message(s))
    /\ UNCHANGED <<arg, cast, perm>>

\* ------------------------------------------------------------------ promptOne
\* Mutant of ShouldSend: every turn sends its text.
ShouldSendAlways(retryCount, isInfinite, values) == TRUE

\* const shouldSend = retryCount === 1 ? !isInfinite || (isInfinite && !values.length) : true
ShouldSend(retryCount, isInfinite, values) ==
    IF retryCount = 1 THEN ~isInfinite \/ (isInfinite /\ Len(values) = 0) ELSE TRUE

PrevInput(retryCount, additionalRetry, commandInput, prevMessage) ==
    IF retryCount <= 1 + additionalRetry THEN commandInput ELSE prevMessage.content

\* Mutant of PromptType: the second turn still uses the start text.
PromptTypeStartTwice(retryCount) == IF retryCount <= 2 THEN "start" ELSE "retry"

\* retryCount === 1 ? 'start' : 'retry'
PromptType(retryCount) == IF retryCount = 1 THEN "start" ELSE "retry"

\* Mutant of GetText: the ended text is used for every phase.
GetTextEnded(promptOptions, promptType) == promptOptions["ended"]

\* getText for a literal text: the option of that phase.
GetText(promptOptions, promptType) == promptOptions[promptType]

\* The outcomes of sending `text` (nothing is sent when it is empty): <<TRUE, log>>
\* when the message was sent, <<FALSE, log>> when the transport rejected.
SendOutcomes(log, text, phase, phrase, n) ==
    IF text = "" THEN {<<TRUE, log>>}
    ELSE {<<TRUE, Append(log, Ev("send", phase, phrase, n))>>,
          <<FALSE, Append(log, Ev("throw", phase, phrase, n))>>}

\* promptOne rejected: the error leaves collect.
Threw(me, log) == [me EXCEPT !.pc = "threw", !.log = log]

\* promptOne resolved with `value`.
Returns(me, value, log) == [me EXCEPT !.pc = "ret", !.returnValue = value, !.log = log]

\* Mutant of Again: the reply at hand is validated again, without a new prompt
\* and a new awaitMessages.
AgainSameReply(me, prevMessage, retryCount, log) ==
    [me EXCEPT !.pc = IF me.pc = "cast" THEN "breakout" ELSE "send",
               !.prevMessage = prevMessage, !.retryCount = retryCount, !.log = log]

\* promptOne(prevMessage, retryCount) is called again.
Again(me, prevMessage, retryCount, log) ==
    [me EXCEPT !.pc = "send", !.prevMessage = prevMessage, !.retryCount = retryCount,
               !.log = log]

\* A step of promptOne: the session moves on; when promptOne rejected, the
\* error leaves collect with the registry as collect leaves it then.
PromptStep(s, next) ==
    /\ ses' = [ses EXCEPT ![s] = next]
    /\ prompts' = IF next.pc = "threw" THEN RegistryAtThrow(prompts, Message(s)) ELSE prompts
    /\ UNCHANGED <<arg, cast, perm>>

\* The message send resolves with: one of the client's in the channel.
Sent(s, retryCount) ==
    [id |-> 100 + retryCount, channel |-> Message(s).channel, author |-> ClientUser,
     content |-> <<"?">>]

\* The head of promptOne: the start or retry text, then awaitMessages.
PromptSend(s) ==
    /\ ses[s].pc = "send"
    /\ LET me == ses[s]
           promptType == PromptType(me.retryCount)
           text == IF ShouldSend(me.retryCount, me.isInfinite, me.values)
                   THEN GetText(me.promptOptions, promptType) ELSE ""
           prevInput == PrevInput(me.retryCount, me.additionalRetry, me.phrase, me.prevMessage)
       IN \E o \in SendOutcomes(me.log, text, promptType, prevInput, me.retryCount) :
            PromptStep(s, IF o[1]
                          THEN [me EXCEPT !.pc = "await",
                                          !.sentStart = IF text = "" THEN NoMessage
                                                        ELSE Sent(s, me.retryCount),
                                          !.log = Append(o[2], Ev("await", "", <<>>, me.retryCount))]
                          ELSE Threw(me, o[2]))

\* Mutant of AwaitFilter: the author of the message is not looked at.
AwaitFilterAnyAuthor(sentStart, message, m) ==
    ~(sentStart # NoMessage /\ m.id = sentStart.id)

\* The filter given to awaitMessages.
AwaitFilter(sentStart, message, m) ==
    IF sentStart # NoMessage /\ m.id = sentStart.id THEN FALSE
    ELSE IF m.author # message.author THEN FALSE
    ELSE TRUE

\* message.channel.awaitMessages collects a message posted in that channel
\* that the filter lets through.
Collects(me, message, m) ==
    m.channel = message.channel /\ AwaitFilter(me.sentStart, message, m)

\* What can be posted while the session waits: a message of the author in the
\* channel, a message of anyone else or in another channel, and the prompt
\* the session has just sent, whose message event may come after the send
\* has resolved.
Posted(s) ==
    LET me == ses[s] IN
    {[id |-> Len(me.replies) + 1, channel |-> Message(s).channel,
      author |-> Message(s).author, content |-> content] : content \in RepliesTo(arg[s])}
    \cup {[id |-> Len(me.replies) + 1, channel |-> c, author |-> u, content |-> <<"1">>] :
            c \in Channels, u \in Users}
    \cup (IF me.sentStart # NoMessage THEN {me.sentStart} ELSE {})

\* A message is posted while promptOne waits in awaitMessages: it resolves
\* with the message if it collects it, and goes on waiting otherwise.
AwaitReply(s) ==
    /\ ses[s].pc = "await"
    /\ Len(ses[s].replies) < MaxReplies
    /\ \E input \in Posted(s) :
         LET me == ses[s] IN
         IF Collects(me, Message(s), input)
         THEN PromptStep(s, [me EXCEPT !.pc = "breakout", !.input = input,
                                       !.replies = Append(@, [message |-> input,
                                                              looksLike |-> "unparsed"]),
                                       !.log = Append(@, Ev("reply", "", input.content,
                                                            me.retryCount))])
         ELSE UNCHANGED vars

\* Mutant of TimeoutValue: a timed-out infinite prompt returns what it holds.
TimeoutValuePartial(me) ==
    IF me.isInfinite /\ Len(me.values) > 0 THEN List(me.values) ELSE CancelFlag

\* What the catch block returns.
TimeoutValue(me) == CancelFlag

\* awaitMessages rejects (time is up): the catch block runs up to the send of
\* the timeout text, which it waits for; without a text it returns at once.
AwaitTimeout(s) ==
    /\ ses[s].pc = "await"
    /\ LET me == ses[s]
           log == Append(me.log, Ev("timeout", "", <<>>, me.retryCount))
       IN IF GetText(me.promptOptions, "timeout") = ""
          THEN PromptStep(s, Returns(me, TimeoutValue(me), log))
          ELSE PromptStep(s, [me EXCEPT !.pc = "timeout", !.log = log])

\* await message.channel.send(timeoutText) is over: the catch block returns,
\* or the error of the send leaves promptOne.
TimeoutSend(s) ==
    /\ ses[s].pc = "timeout"
    /\ LET me == ses[s] IN
       \E o \in SendOutcomes(me.log, GetText(me.promptOptions, "timeout"), "timeout", <<>>,
                              me.retryCount) :
            PromptStep(s, IF o[1] THEN Returns(me, TimeoutValue(me), o[2])
                          ELSE Threw(me, o[2]))

\* Mutant of BreakoutRetries: the outcome of the lookahead is ignored.
BreakoutNever(looksLike) == FALSE

\* if (promptOptions.breakout): the lookahead handler.parseCommand(input)
\* resolves with a command, resolves without one, or rejects.
BreakoutRetries(looksLike) == looksLike = "command"

\* The reply with the outcome of the lookahead noted in the history.
Parsed(me, looksLike) ==
    [me EXCEPT !.replies[Len(me.replies)].looksLike = looksLike]

Breakout(s) ==
    /\ ses[s].pc = "breakout"
    /\ LET me == ses[s] IN
       IF me.promptOptions.breakout
       THEN \E looksLike \in {"command", "nothing", "rejects"} :
              PromptStep(s,
                IF looksLike = "rejects"
                THEN Threw(Parsed(me, looksLike),
                           Append(me.log, Ev("throw", "parseCommand", me.input.content,
                                             me.retryCount)))
                ELSE IF BreakoutRetries(looksLike)
                THEN Returns(Parsed(me, looksLike), RetryFlag(me.input),
                             Append(me.log, Ev("breakout", "", me.input.content, me.retryCount)))
                ELSE [Parsed(me, looksLike) EXCEPT !.pc = "check"])
       ELSE PromptStep(s, [Parsed(me, "skipped") EXCEPT !.pc = "check"])

\* input.content.toLowerCase() === word.toLowerCase()
SameWord(content, word) == ToLowerCase(content) = ToLowerCase(word)

\* Mutant of IsCancel: the comparison minds the case.
IsCancelExact(content, promptOptions) == content = promptOptions.cancelWord

IsCancel(content, promptOptions) == SameWord(content, promptOptions.cancelWord)

IsStop(content, isInfinite, promptOptions) ==
    isInfinite /\ SameWord(content, promptOptions.stopWord)

\* Mutant of StopOutcome: the stop word always ends the prompt.
StopAlwaysReturns(me, log) == Returns(me, List(me.values), log)

\* The stop word was typed: ask again while there is no value, return the
\* values otherwise.
StopOutcome(me, log) ==
    IF Len(me.values) = 0
    THEN Again(me, me.input, me.retryCount + 1, log)
    ELSE Returns(me, List(me.values), log)

\* The cancel check and the stop check on the reply.  On the cancel word
\* promptOne runs up to the send of the cancel text, which it waits for;
\* without a text it returns at once.
CheckInput(s) ==
    /\ ses[s].pc = "check"
    /\ LET me == ses[s]
           content == me.input.content
       IN IF IsCancel(content, me.promptOptions)
          THEN IF GetText(me.promptOptions, "cancel") = ""
               THEN PromptStep(s, Returns(me, CancelFlag,
                                          Append(me.log, Ev("cancel", "", content,
                                                            me.retryCount))))
               ELSE PromptStep(s, [me EXCEPT !.pc = "cancel",
                                             !.log = Append(@, Ev("cancel", "", content,
                                                                  me.retryCount))])
          ELSE IF IsStop(content, me.isInfinite, me.promptOptions)
          THEN PromptStep(s, StopOutcome(me, Append(me.log, Ev("stop", "", content,
                                                              me.retryCount))))
          ELSE PromptStep(s, [me EXCEPT !.pc = "cast"])

\* await message.channel.send(cancelText) is over: promptOne returns the
\* cancel flag, or the error of the send leaves it.
CancelSend(s) ==
    /\ ses[s].pc = "cancel"
    /\ LET me == ses[s] IN
       \E o \in SendOutcomes(me.log, GetText(me.promptOptions, "cancel"), "cancel", <<>>,
                              me.retryCount) :
            PromptStep(s, IF o[1] THEN Returns(me, CancelFlag, o[2]) ELSE Threw(me, o[2]))

\* Mutant of MayRetry: the retries are counted against all the prompts that
\* are registered.
MayRetryShared(retryCount, promptOptions) ==
    retryCount + Cardinality(prompts) - 1 <= promptOptions.retries

\* retryCount <= promptOptions.retries
MayRetry(retryCount, promptOptions) == retryCount <= promptOptions.retries

\* Mutant of BelowLimit: values.length <= limit.
AtOrBelowLimit(values, promptOptions) == AtMost(Len(values), promptOptions.limit)

\* values.length < limit
BelowLimit(values, promptOptions) == LessThan(Len(values), promptOptions.limit)

\* values.push(parsedValue): the list grows, and with it the entry of args
\* that is this list.
Pushed(me, parsedValue) ==
    [me EXCEPT !.values = Append(@, parsedValue),
               !.args = ArgsWith(@, TRUE, Append(me.values, parsedValue))]

\* await this.cast(input.content, input, args) is over, and what follows it
\* up to the next wait: with no retry left and an ended text, the send of
\* that text.
CastInput(s) ==
    /\ ses[s].pc = "cast"
    /\ LET me == ses[s]
           content == me.input.content
           parsedValue == Cast(arg[s].type, content)
           log == Append(me.log, Ev("cast", "collect", content,
                                    IF IsNull(parsedValue) THEN 0 ELSE 1))
       IN IF IsThrown(parsedValue)
          THEN PromptStep(s, Threw(me, log))
          ELSE IF IsNull(parsedValue)
          THEN IF MayRetry(me.retryCount, me.promptOptions)
               THEN PromptStep(s, Again(me, me.input, me.retryCount + 1, log))
               ELSE IF GetText(me.promptOptions, "ended") = ""
               THEN PromptStep(s, Returns(me, CancelFlag, log))
               ELSE PromptStep(s, [me EXCEPT !.pc = "ended", !.log = log])
          ELSE IF me.isInfinite
          THEN LET pushed == Pushed(me, parsedValue) IN
               PromptStep(s, IF BelowLimit(pushed.values, me.promptOptions)
                             THEN Again(pushed, Message(s), 1, log)
                             ELSE Returns(pushed, List(pushed.values), log))
          ELSE PromptStep(s, Returns(me, parsedValue, log))

\* await message.channel.send(endedText) is over: promptOne returns the
\* cancel flag, or the error of the send leaves it.
EndedSend(s) ==
    /\ ses[s].pc = "ended"
    /\ LET me == ses[s] IN
       \E o \in SendOutcomes(me.log, GetText(me.promptOptions, "ended"), "ended",
                              me.input.content, me.retryCount) :
            PromptStep(s, IF o[1] THEN Returns(me, CancelFlag, o[2]) ELSE Threw(me, o[2]))

\* promptOne resolved: collect unregisters the prompt and returns the value.
CollectReturn(s) ==
    /\ ses[s].pc = "ret"
    /\ ses' = [ses EXCEPT ![s] =
                 [@ EXCEPT !.pc = "done", !.result = ses[s].returnValue,
                           !.log = Append(@, Ev("unregister", "", <<>>, 0))]]
    /\ prompts' = RegistryAtReturn(prompts, Message(s))
    /\ UNCHANGED <<arg, cast, perm>>

Next ==
    \E s \in Sessions :
        \/ Process(s)
        \/ Collect(s)
        \/ PromptSend(s)
        \/ AwaitReply(s)
        \/ AwaitTimeout(s)
        \/ TimeoutSend(s)
        \/ Breakout(s)
        \/ CheckInput(s)
        \/ CancelSend(s)
        \/ CastInput(s)
        \/ EndedSend(s)
        \/ CollectReturn(s)

Spec == Init /\ [][Next]_vars

\* ------------------------------------------------------------------ two sessions
\* The argument both sessions prompt for: one value with no retry or one
\* retry, or up to two values with no retry.
TwoLayers ==
    {("retries" :> 0), ("retries" :> 1),
     ("retries" :> 0) @@ ("infinite" :> TRUE) @@ ("limit" :> Num(2))}

TwoArguments ==
    {[match |-> "phrase", type |-> IntegerType, default |-> [fn |-> FALSE, val |-> Num(9)],
      prompt |-> l @@ [start |-> "start?", retry |-> "retry?", timeout |-> "timeout.",
                       ended |-> "ended.", cancel |-> "cancel."],
      commandPrompt |-> NoPrompt, handlerPrompt |-> HandlerDefaults, phrase |-> <<>>] :
        l \in TwoLayers}

\* Two commands called from different (channel, author) pairs: by two users in
\* one channel, by one user in two channels, and by the client's own user in
\* two channels (the client handles its own messages).
Placements ==
    {<<Place(1, 1), Place(1, 2)>>, <<Place(1, 1), Place(2, 1)>>,
     <<Place(1, ClientUser), Place(2, ClientUser)>>}

InitTwo ==
    /\ \E a \in TwoArguments, places \in Placements :
         arg = [s \in Sessions |-> a @@ places[s]]
    /\ ses = [s \in Sessions |-> Idle("process")]
    /\ prompts = {}
    /\ cast = NoCast
    /\ perm = NoResolve

SpecTwo == InitTwo /\ [][Next]_vars

\* ------------------------------------------------------------------ cast
\* The sequences over S of length 0..n.
SeqsUpTo(S, n) == UNION {[1..k -> S] : k \in 0..n}

\* Entries of enumerations: the canonical first element is written in capitals
\* its aliases do not share, groups share aliases, and a group may be empty.
\* Two entries are written in letters beyond U+007F: a word in capitals that
\* ends in a sigma with a title-case digraph as its alias, and that word in
\* small letters (U+0253 is the small letter of U+0181).
EnumEntries ==
    {Plain(<<"A">>),
     Group(<<>>),
     Group(<< <<"O", "n">>, <<"x">> >>),
     Group(<< <<"N", "o">>, <<"X">>, <<"a">> >>),
     Group(<< <<"Ɓ", "Σ">>, <<"ǅ">> >>),
     Plain(<<"U+0253", "ς">>)}

Enumerations == {ArrayType(entries) : entries \in SeqsUpTo(EnumEntries, MaxTypes)}

\* Regular expressions, with and without the g flag; the empty pattern
\* matches the empty text at every place.
Patterns == {RegExpType(source, global) : source \in {<<"x">>, <<>>}, global \in BOOLEAN}

\* Types a union is made of: a resolver type, an enumeration, the type that
\* gives the phrase itself, and a type made by range.
UnionEntries == {IntegerType, WordsType, StringType, Range(IntegerType, 1, 3, FALSE)}

Unions == {Union(types) : types \in SeqsUpTo(UnionEntries, MaxTypes)}

Ranges ==
    {Range(type, min, max, inclusive) :
        type \in {IntegerType, StringType, FnType("length"),
                  Tuple(<<IntegerType>>), Union(<<IntegerType>>)},
        min \in 0..MaxBound, max \in 0..MaxBound, inclusive \in BOOLEAN}

Composes ==
    {Compose(type1, type2, ignoreVoid) :
        type1 \in {IntegerType, StringType, WordsType, FnType("lower"),
                   Range(Union(<<IntegerType>>), 0, 3, FALSE)},
        type2 \in {IntegerType, StringType, WordsType, FnType("length"), FnType("orNone"),
                   ArrayType(<<Group(<<>>)>>), RegExpType(<<"x">>, FALSE),
                   Range(Tuple(<<IntegerType>>), 0, 3, TRUE)},
        ignoreVoid \in BOOLEAN}

CastTypes == Enumerations \cup Patterns \cup Unions \cup Ranges \cup Composes

CastPhrases ==
    {<<>>, <<"0">>, <<"1">>, <<"2">>, <<"3">>, <<"4">>, <<"1", "2">>, <<"-", "1">>,
     <<".", "5">>, <<"x">>, <<"X">>, <<"a", "x", "x">>, <<"o", "N">>, <<"a">>,
     <<"n", "o">>, <<"t">>, <<"Ɓ", "Σ">>, <<"U+0253", "ς">>, <<"ǆ">>, <<"Ǆ">>}

\* A type has been made and is about to be used for a phrase; held is the
\* type as the calls made so far have left it, runs the calls of cast begun
\* so far, hung whether one of them hangs.
InitCast ==
    /\ arg = [s \in Sessions |-> OffArgument @@ Place(s, s)]
    /\ ses = [s \in Sessions |-> Idle("off")]
    /\ prompts = {}
    /\ perm = NoResolve
    /\ \E type \in CastTypes, phrase \in CastPhrases :
         cast = [held |-> type, phrase |-> phrase, runs |-> <<>>, hung |-> FALSE]

\* The type a call is made for: the type under use itself when an argument
\* has it as its type, a union with the type as its entry otherwise.
Whole(via) == IF via = "entry" THEN Union(<<cast.held>>) ELSE cast.held

\* The type under use in what a call has made of the type it was made for.
HeldIn(via, types) == IF via = "entry" THEN types.types[1] ELSE types

\* A call of cast as it stands after a stage: the type it was begun for, the
\* typeFns that wait, the value on its way, the calls its outermost typeFn
\* has got a value from; done when no typeFn waits.
CastStands(via, type, stage) ==
    [via |-> via, type |-> type, stack |-> stage.stack, value |-> stage.value,
     calls |-> stage.calls, pc |-> IF Over(stage) THEN "done" ELSE "wait"]

\* The calls and the type under use after call i has come to a stage.
CastAfter(i, via, type, stage) ==
    [cast EXCEPT !.held = HeldIn(via, stage.types),
                 !.runs = [j \in 1..(IF i > Len(@) THEN i ELSE Len(@)) |->
                              IF j = i THEN CastStands(via, type, stage) ELSE @[j]],
                 !.hung = IsHung(stage.value)]

\* A call of cast begins and runs up to its first await that has to wait.
CastBegins(via) ==
    /\ ~cast.hung
    /\ Len(cast.runs) < MaxCalls
    /\ cast' = CastAfter(Len(cast.runs) + 1, via, Whole(via),
                         Enter(Whole(via), <<>>, Str(cast.phrase), TRUE, <<>>, <<>>))
    /\ UNCHANGED <<arg, ses, prompts, perm>>

\* this.cast(phrase, message, args) of an argument that has the type as its
\* type begins.
CastCall == CastBegins("argument")

\* this.cast(phrase, message, args) of an argument whose type is a union with
\* the type as its entry begins.
CastAsEntry == CastBegins("entry")

\* A call that waits goes on after its await, up to its next await or its
\* end.  Which of the waiting calls goes on first is left open: the order of
\* the job queue depends on when each call was begun.
CastResume ==
    /\ ~cast.hung
    /\ \E i \in 1..Len(cast.runs) :
         /\ cast.runs[i].pc = "wait"
         /\ cast' = CastAfter(i, cast.runs[i].via, cast.runs[i].type,
                              Resume(Whole(cast.runs[i].via), cast.runs[i].stack,
                                     cast.runs[i].value, cast.runs[i].calls))
    /\ UNCHANGED <<arg, ses, prompts, perm>>

NextCast == CastCall \/ CastAsEntry \/ CastResume

SpecCast == InitCast /\ [][NextCast]_vars

\* ------------------------------------------------------------------ reading a session
Pair(s) == <<Message(s).channel, Message(s).author>>

Indices(log, ev) == {i \in 1..Len(log) : log[i].ev = ev}

HasEv(log, ev) == Indices(log, ev) # {}

Max(S) == CHOOSE x \in S : \A y \in S : y <= x

\* The position of the last `ev` in the log, 0 when there is none.
LastEv(log, ev) == IF HasEv(log, ev) THEN Max(Indices(log, ev)) ELSE 0

\* collect was entered.
Entered(me) == HasEv(me.log, "register")

\* promptOne resolved with me.returnValue.
Returned(me) == Entered(me) /\ me.pc \in {"ret", "done"}

\* The session is inside promptOne.
Prompting(me) ==
    me.pc \in {"send", "await", "timeout", "breakout", "check", "cancel", "cast", "ended"}

\* The cast attempts on input of the user: those of promptOne, and the one of
\* process when there was a phrase.
CastAttempts(me) ==
    Cardinality({i \in Indices(me.log, "cast") :
                    me.log[i].phase = "collect" \/ me.log[i].phrase # <<>>})

\* promptOne returned Cancel because the retries ran out.
RetriesExhausted(me) ==
    /\ Returned(me)
    /\ me.returnValue = CancelFlag
    /\ ~HasEv(me.log, "timeout")
    /\ ~HasEv(me.log, "cancel")

\* ------------------------------------------------------------------ claims
\* C1: a non-infinite prompt with retries = r in which every cast misses makes
\* exactly r+1 cast attempts before it ends with Cancel, the failed cast of a
\* seed phrase in process counting as the first.
C1_ExactlyRetriesPlusOne ==
    \A s \in Sessions :
        LET me == ses[s] IN
        (~me.isInfinite /\ RetriesExhausted(me))
            => CastAttempts(me) = me.promptOptions.retries + 1

\* C2: when the transport fails during collect, the session's entry is out of
\* the registry when the failure reaches the caller.
C2_ReleasedOnFailure ==
    \A s \in Sessions : ses[s].pc = "threw" => Pair(s) \notin prompts

\* C3: the marker is registered before the first send and the first await,
\* stays registered while the session is inside promptOne, and is unregistered
\* when collect has returned, whatever it returns.
C3_RegisteredWhilePrompting ==
    \A s \in Sessions :
        LET me == ses[s]
            first == {i \in 1..Len(me.log) : me.log[i].ev \in {"send", "await"}}
        IN /\ (Prompting(me) \/ me.pc = "ret") => Pair(s) \in prompts
           /\ me.pc = "done" => Pair(s) \notin prompts
           /\ first # {} => /\ Entered(me)
                            /\ \A i \in first : LastEv(me.log, "register") < i

\* C3 witness: collect has returned a list of two values and the marker is gone.
C3_Witness ==
    /\ ses[1].pc = "done"
    /\ Entered(ses[1])
    /\ ses[1].result = List(<<Str(<<"1">>), Str(<<"x">>)>>)
    /\ Pair(1) \notin prompts

\* The events of the log after position k.
After(log, k) == {i \in 1..Len(log) : i > k}

\* The position in the log of the i-th reply.
NthReply(log, i) ==
    CHOOSE k \in Indices(log, "reply") :
        Cardinality({j \in Indices(log, "reply") : j <= k}) = i

\* The reply went past the breakout check.
PastBreakout(reply) == reply.looksLike \in {"nothing", "skipped"}

\* The values of the replies that were neither taken by the breakout check nor
\* the cancel word nor the stop word and that the type casts, in the order of
\* the replies.
RECURSIVE Accepted(_, _, _)
Accepted(type, replies, promptOptions) ==
    IF replies = <<>> THEN <<>>
    ELSE LET reply == Head(replies)
             content == reply.message.content
             rest == Accepted(type, Tail(replies), promptOptions)
         IN IF /\ PastBreakout(reply)
               /\ ~SameWord(content, promptOptions.cancelWord)
               /\ ~SameWord(content, promptOptions.stopWord)
               /\ ~IsNull(Cast(type, content))
            THEN <<Cast(type, content)>> \o rest
            ELSE rest

\* C4: once awaitMessages has timed out the session ends with Cancel at that
\* turn: nothing is cast or awaited after it, and what collect returns is
\* Cancel, never the values accumulated in infinite mode.
C4_TimeoutCancels ==
    \A s \in Sessions :
        LET me == ses[s]
            t == LastEv(me.log, "timeout")
        IN t > 0 =>
            /\ Cardinality(Indices(me.log, "timeout")) = 1
            /\ me.pc \in {"timeout", "ret", "done", "threw"}
            /\ me.pc \in {"ret", "done"} => me.returnValue = CancelFlag
            /\ me.pc = "done" => me.result = CancelFlag
            /\ \A i \in After(me.log, t) :
                 \/ me.log[i].ev \in {"send", "throw"} /\ me.log[i].phase = "timeout"
                 \/ me.log[i].ev = "unregister"

\* C4 witness: an infinite prompt holding two values timed out and collect
\* returned Cancel.
C4_Witness ==
    /\ ses[1].pc = "done"
    /\ ses[1].isInfinite
    /\ Len(ses[1].values) = 2
    /\ HasEv(ses[1].log, "timeout")
    /\ ses[1].result = CancelFlag

\* C5: with breakout enabled, a reply that parses as a command ends collect
\* with Retry carrying that reply, before the cancel check, the stop check and
\* the cast see it: no cancel text is sent and no value is added.
C5_BreakoutFirst ==
    \A s \in Sessions :
        LET me == ses[s] IN
        \A i \in 1..Len(me.replies) :
            me.replies[i].looksLike = "command" =>
                /\ me.promptOptions.breakout
                /\ i = Len(me.replies)
                /\ me.pc \in {"ret", "done"}
                /\ me.returnValue = RetryFlag(me.replies[i].message)
                /\ me.pc = "done" => me.result = RetryFlag(me.replies[i].message)
                /\ \A j \in After(me.log, LastEv(me.log, "reply")) :
                     me.log[j].ev \in {"breakout", "unregister"}
                /\ me.values = Accepted(arg[s].type, SubSeq(me.replies, 1, i - 1),
                                        me.promptOptions)

\* C5 witness: the reply that parsed as a command is also the cancel word, and
\* collect returned Retry.
C5_Witness ==
    /\ ses[1].pc = "done"
    /\ ses[1].result.k = "retry"
    /\ SameWord(ses[1].result.message.content, CancelWord)
    /\ ses[1].promptOptions.cancel # ""

\* The replies seen so far have all been dealt with.
BetweenReplies(me) == me.pc \in {"send", "await"}

\* C6: an infinite prompt returns its list as soon as the stop word comes with
\* at least one value accumulated or the number of values reaches the limit;
\* the list is exactly the values of the accepted replies in their order,
\* holds no stop-word reply and is no longer than the limit.
C6_InfiniteList ==
    \A s \in Sessions :
        LET me == ses[s]
            n == Len(me.replies)
            stopWord == me.promptOptions.stopWord
            limit == me.promptOptions.limit
            accepted == Accepted(arg[s].type, me.replies, me.promptOptions)
            before == Accepted(arg[s].type, SubSeq(me.replies, 1, n - 1), me.promptOptions)
            lastIsStop == /\ n > 0
                          /\ PastBreakout(me.replies[n])
                          /\ SameWord(me.replies[n].message.content, stopWord)
        IN (Entered(me) /\ me.isInfinite) =>
            \* what a returned list holds
            /\ (Returned(me) /\ me.returnValue.k = "list") =>
                 /\ me.returnValue = List(accepted)
                 /\ Len(accepted) >= 1
                 /\ AtMost(Len(accepted), limit)
                 /\ lastIsStop \/ ~LessThan(Len(accepted), limit)
                 /\ me.pc = "done" => me.result = me.returnValue
            \* the session goes on only below the limit and without a stop
            \* word that came after a value
            /\ BetweenReplies(me) =>
                 /\ LessThan(Len(accepted), limit)
                 /\ me.values = accepted
                 /\ lastIsStop => before = <<>>
            \* the stop word after a value, and the limit, end the session with
            \* the list
            /\ (lastIsStop /\ before # <<>> /\ me.pc # "check") =>
                 Returned(me) /\ me.returnValue = List(before)
            /\ (~LessThan(Len(accepted), limit) /\ me.pc \notin {"breakout", "check", "cast"}
                  /\ ~HasEv(me.log, "timeout")) =>
                 Returned(me) /\ me.returnValue = List(accepted)

\* C6 witness: the second value reached the limit of 2 and collect returned
\* both, without a stop word.
C6_Witness ==
    /\ ses[1].pc = "done"
    /\ ses[1].isInfinite
    /\ ses[1].promptOptions.limit = Num(2)
    /\ ses[1].result = List(<<Str(<<"x">>), Str(<<"1">>)>>)
    /\ Len(ses[1].replies) = 2

\* C7: in an infinite prompt the stop word typed while there is no value is
\* neither cast nor taken as the end: promptOne is called again with
\* retryCount + 1, and collect never returns an empty list.
C7_StopWithoutValues ==
    \A s \in Sessions :
        LET me == ses[s] IN
        (Entered(me) /\ me.isInfinite) =>
            /\ (Returned(me) /\ me.returnValue.k = "list") => Len(me.returnValue.items) >= 1
            /\ \A i \in 1..Len(me.replies) :
                 LET reply == me.replies[i]
                     k == NthReply(me.log, i)
                 IN (/\ PastBreakout(reply)
                     /\ SameWord(reply.message.content, me.promptOptions.stopWord)
                     /\ Accepted(arg[s].type, SubSeq(me.replies, 1, i - 1),
                                 me.promptOptions) = <<>>
                     /\ (i < Len(me.replies) \/ me.pc # "check"))
                    => /\ Len(me.log) > k /\ me.log[k + 1].ev = "stop"
                       /\ IF Len(me.log) = k + 1
                          THEN /\ me.pc = "send"
                               /\ me.retryCount = me.log[k].n + 1
                               /\ me.prevMessage = reply.message
                               /\ me.values = <<>>
                          ELSE /\ me.log[k + 2].ev \in {"send", "throw", "await"}
                               /\ me.log[k + 2].n = me.log[k].n + 1
                               /\ me.log[k + 2].ev \in {"send", "throw"}
                                    => me.log[k + 2].phase = "retry"

\* C7 witness: the stop word came twice before any value; the session is at its
\* third turn and goes on.
C7_Witness ==
    /\ ses[1].pc = "await"
    /\ ses[1].isInfinite
    /\ ses[1].values = <<>>
    /\ Len(ses[1].replies) = 2
    /\ \A i \in 1..2 : SameWord(ses[1].replies[i].message.content, StopWord)
    /\ ses[1].retryCount = 3

\* The words, replies, aliases and phrases that differ only in the case of
\* their letters, written out: among them the word in capitals U+0181 U+03A3
\* and the same word in small letters, U+0253 and the sigma a word ends in,
\* and the small, the title-case and the capital form of the digraph dz with
\* caron.
AlikeTexts ==
    {{<<"c", "a", "n", "c", "e", "l">>, <<"C", "a", "n", "c", "e", "L">>},
     {<<"s", "t", "o", "p">>, <<"S", "T", "O", "P">>},
     {<<"Ɓ", "Σ">>, <<"U+0253", "ς">>},
     {<<"ǆ">>, <<"ǅ">>, <<"Ǆ">>},
     {<<"a">>, <<"A">>},
     {<<"x">>, <<"X">>},
     {<<"O", "n">>, <<"o", "N">>},
     {<<"N", "o">>, <<"n", "o">>}}

\* Two texts are equal but for the case of their letters.
CaseAlike(a, b) == a = b \/ \E class \in AlikeTexts : a \in class /\ b \in class

\* C8: a reply that went past the breakout check and equals the cancel word
\* but for the case of its letters ends collect with Cancel at that turn
\* without being cast: promptOne is at the send of the cancel text, or has
\* returned Cancel, or that send has failed; nothing else follows the reply,
\* and the values an infinite prompt holds are not returned.
C8_CancelWord ==
    \A s \in Sessions :
        LET me == ses[s] IN
        \A i \in 1..Len(me.replies) :
            LET reply == me.replies[i]
                k == NthReply(me.log, i)
            IN (/\ PastBreakout(reply)
                /\ CaseAlike(reply.message.content, me.promptOptions.cancelWord)
                /\ me.pc # "check")
               => /\ i = Len(me.replies)
                  /\ me.pc \in {"cancel", "ret", "done", "threw"}
                  /\ me.pc \in {"ret", "done"} => me.returnValue = CancelFlag
                  /\ me.pc = "done" => me.result = CancelFlag
                  /\ me.log[k + 1].ev = "cancel"
                  /\ me.pc = "cancel" =>
                        /\ After(me.log, k + 1) = {}
                        /\ me.promptOptions.cancel # ""
                  /\ me.pc = "threw" =>
                        /\ me.log[Len(me.log)].ev = "throw"
                        /\ me.log[Len(me.log)].phase = "cancel"
                  /\ \A j \in After(me.log, k + 1) :
                       \/ me.log[j].ev \in {"send", "throw"} /\ me.log[j].phase = "cancel"
                       \/ me.log[j].ev = "unregister"

\* C8 witness: an infinite prompt holding a value got its cancel word, set
\* in capitals, in small letters and returned Cancel.
C8_Witness ==
    /\ ses[1].pc = "done"
    /\ ses[1].isInfinite
    /\ Len(ses[1].values) = 1
    /\ ses[1].promptOptions.cancelWord = <<"Ɓ", "Σ">>
    /\ ses[1].input.content = <<"U+0253", "ς">>
    /\ HasEv(ses[1].log, "cancel")
    /\ ses[1].result = CancelFlag

\* process has run and its cast of the phrase missed.
ProcessCastMissed(me) ==
    /\ me.pc # "process"
    /\ Len(me.log) >= 1
    /\ me.log[1] = Ev("cast", "process", me.phrase, 0)

\* process handed over to collect.
Delegated(me) == me.pc = "collect" \/ Entered(me)

\* process returned the resolved default after the miss.
ReturnedDefault(a, me) ==
    /\ me.pc = "done"
    /\ me.result = a.default.val
    /\ me.log = <<Ev("cast", "process", me.phrase, 0), DefaultEvent(a)>>

\* Some layer defines a prompt configuration, so the merged one exists.
SomeLayer(a) == ~IsNone(a.prompt) \/ ~IsNone(a.commandPrompt) \/ ~IsNone(a.handlerPrompt)

\* C9 as stated: after a miss process delegates to collect whenever some layer
\* defines a prompt configuration, and returns the default only when none does.
C9_DelegatesOnMergedPrompt ==
    \A s \in Sessions :
        LET me == ses[s] IN
        ProcessCastMissed(me) =>
            /\ SomeLayer(arg[s]) => Delegated(me)
            /\ ~SomeLayer(arg[s]) => ReturnedDefault(arg[s], me)

\* C9 amended: after a miss process delegates to collect exactly when the
\* argument has a prompt configuration of its own; without one it returns the
\* resolved default, also when the command or the handler defines a default
\* prompt.
C9_DelegatesOnOwnPrompt ==
    \A s \in Sessions :
        LET me == ses[s] IN
        ProcessCastMissed(me) =>
            /\ ~IsNone(arg[s].prompt) => Delegated(me) /\ ~HasEv(me.log, "default")
            /\ IsNone(arg[s].prompt) => ReturnedDefault(arg[s], me) /\ ~Delegated(me)

\* C9 witness: the cast missed, only the handler and the command define a
\* prompt, and process returned the default of a supplier function.
C9_Witness ==
    /\ ProcessCastMissed(ses[1])
    /\ IsNone(arg[1].prompt)
    /\ ~IsNone(arg[1].handlerPrompt)
    /\ ~IsNone(arg[1].commandPrompt)
    /\ arg[1].default.fn
    /\ ReturnedDefault(arg[1], ses[1])

\* The phrase is empty once trimmed.
Blank(phrase) == \A i \in 1..Len(phrase) : phrase[i] \in WhiteSpace

\* Some layer marks the argument optional.
MarkedOptional(a) ==
    \E layer \in {a.prompt, a.commandPrompt, a.handlerPrompt} :
        ~IsNone(layer) /\ "optional" \in DOMAIN layer /\ layer.optional

\* C10: for a phrase that is empty once trimmed and an optional argument,
\* process returns the resolved default (a supplier function is invoked) and
\* does nothing else: no cast, no prompt message, no await, no registration.
C10_OptionalShortCircuit ==
    \A s \in Sessions :
        LET me == ses[s]
            a == arg[s]
        IN (me.pc \notin {"process", "off"} /\ Blank(a.phrase) /\ MarkedOptional(a)) =>
            /\ me.pc = "done"
            /\ me.result = a.default.val
            /\ me.log = <<Ev("default", IF a.default.fn THEN "call" ELSE "literal", <<>>, 0)>>
            /\ me.replies = <<>>
            /\ Pair(s) \notin prompts

\* C10 witness: a phrase of one blank, an argument with a prompt of its own
\* that only the command's default prompt marks optional, and the default of a
\* supplier function returned.
C10_Witness ==
    /\ ses[1].pc = "done"
    /\ arg[1].phrase = <<" ">>
    /\ ~IsNone(arg[1].prompt)
    /\ ~OptionalIn(arg[1].prompt)
    /\ OptionalIn(arg[1].commandPrompt)
    /\ arg[1].default.fn
    /\ ses[1].result = arg[1].default.val

\* ------------------------------------------------------------------ C11
\* Two values are the same value of the same kind.
Same(v, w) == v.k = w.k /\ v = w

\* What the type of the argument gives for the trimmed phrase.
PhraseValue(a) == CastRun(a.type, Str(Trim(a.phrase)), TRUE).value

\* process came to its cast and the cast gave a value other than null.
ProcessCastGave(a, me) ==
    /\ me.pc \notin {"process", "off"}
    /\ ~(Blank(a.phrase) /\ MarkedOptional(a))
    /\ PhraseValue(a).k \notin {"null", "throw"}

\* C11: when the cast of the phrase in process gives a value other than null
\* (false, 0, the empty string and the empty list included), process returns
\* that value and does nothing else: no default is resolved, no prompt is
\* sent, no reply awaited and the registry does not hold the pair.
C11_CastResultReturned ==
    \A s \in Sessions :
        LET me == ses[s]
            a == arg[s]
        IN ProcessCastGave(a, me) =>
            /\ me.pc = "done"
            /\ Same(me.result, PhraseValue(a))
            /\ me.log = <<Ev("cast", "process", Trim(a.phrase), 1)>>
            /\ me.replies = <<>>
            /\ Pair(s) \notin prompts

\* C11 witness: process returned the empty string its caster gave, for an
\* argument that has a prompt and a default.
C11_Witness ==
    /\ ses[1].pc = "done"
    /\ ProcessCastGave(arg[1], ses[1])
    /\ ~IsNone(arg[1].prompt)
    /\ ses[1].result.k = "str"
    /\ ses[1].result.s = <<>>

\* ------------------------------------------------------------------ C12
TerminalPhases == {"timeout", "cancel", "ended"}

\* The positions of the messages sent for the end of a prompt.
TerminalSends(log) == {i \in Indices(log, "send") : log[i].phase \in TerminalPhases}

\* Why promptOne returned Cancel.
CancelCause(me) ==
    IF HasEv(me.log, "timeout") THEN "timeout"
    ELSE IF HasEv(me.log, "cancel") THEN "cancel"
    ELSE "ended"

\* The position of the step that decided the end: the timeout, the cancel
\* word seen, or the last cast.
CancelDecided(me) ==
    IF CancelCause(me) = "ended" THEN LastEv(me.log, "cast")
    ELSE LastEv(me.log, CancelCause(me))

\* The text the three layers configure for a phase, the argument's own first.
ConfiguredText(a, phase) ==
    IF phase \in DOMAIN a.prompt THEN a.prompt[phase]
    ELSE IF ~IsNone(a.commandPrompt) /\ phase \in DOMAIN a.commandPrompt
    THEN a.commandPrompt[phase]
    ELSE a.handlerPrompt[phase]

\* C12: when promptOne returns Cancel (time is up, the cancel word, retries
\* used up), the text of that phase, if one is configured, is sent exactly once,
\* after the last reply and the deciding step and before collect returns, and
\* it is the only message of the three phases; if none is configured nothing
\* is sent after the deciding step. A prompt that returns anything else has
\* sent no timeout, cancel or ended text.
C12_OneTerminalMessage ==
    \A s \in Sessions :
        LET me == ses[s]
            sends == TerminalSends(me.log)
            decided == CancelDecided(me)
        IN Returned(me) =>
            IF me.returnValue = CancelFlag
            THEN /\ decided > LastEv(me.log, "reply")
                 /\ IF ConfiguredText(arg[s], CancelCause(me)) # ""
                    THEN /\ Cardinality(sends) = 1
                         /\ \A i \in sends :
                               /\ me.log[i].phase = CancelCause(me)
                               /\ i = decided + 1
                               /\ \A j \in Indices(me.log, "unregister") : i < j
                         /\ \A i \in After(me.log, decided + 1) : me.log[i].ev = "unregister"
                    ELSE /\ sends = {}
                         /\ \A i \in After(me.log, decided) : me.log[i].ev = "unregister"
            ELSE sends = {}

\* C12 witness: a prompt that configures the cancel text only has ended on
\* the cancel word with that text sent, and collect has returned.
C12_Witness ==
    /\ ses[1].pc = "done"
    /\ Returned(ses[1])
    /\ ses[1].returnValue = CancelFlag
    /\ HasEv(ses[1].log, "cancel")
    /\ ConfiguredText(arg[1], "cancel") # ""
    /\ ConfiguredText(arg[1], "ended") = ""
    /\ ConfiguredText(arg[1], "timeout") = ""
    /\ Cardinality(TerminalSends(ses[1].log)) = 1

\* ------------------------------------------------------------------ C13
\* The three layers together set infinite, the argument's own first.
ConfiguredInfinite(a) ==
    IF "infinite" \in DOMAIN a.prompt THEN a.prompt.infinite
    ELSE IF ~IsNone(a.commandPrompt) /\ "infinite" \in DOMAIN a.commandPrompt
    THEN a.commandPrompt.infinite
    ELSE a.handlerPrompt.infinite

\* The argument matches separately and process had a phrase for it.
SeparateWithSeed(a) == a.match = "separate" /\ ~Blank(a.phrase)

\* promptOne is through with the i-th reply: all but the one it is looking at.
IsSettled(me, i) == i < Len(me.replies) \/ me.pc \notin {"breakout", "check", "cast"}

\* The replies promptOne is through with.
Settled(me) == {i \in 1..Len(me.replies) : IsSettled(me, i)}

\* The successful casts of promptOne.
Successes(log) == {i \in Indices(log, "cast") : log[i].phase = "collect" /\ log[i].n = 1}

\* C13: a prompt is infinite iff the merged options set infinite and the
\* argument is not one matched separately with a seed phrase. For a separate
\* argument with a seed phrase the first successful cast ends the prompt with
\* that single value, never a list, and a reply that is the stop word is cast
\* like any other reply.
C13_InfiniteUnlessSeparateSeed ==
    \A s \in Sessions :
        LET me == ses[s]
            a == arg[s]
        IN Entered(me) =>
            /\ me.isInfinite <=> (ConfiguredInfinite(a) /\ ~SeparateWithSeed(a))
            /\ SeparateWithSeed(a) =>
                 /\ ~HasEv(me.log, "stop")
                 /\ me.values = <<>>
                 /\ Returned(me) => me.returnValue.k # "list"
                 /\ \A i \in Successes(me.log) :
                       /\ me.pc \in {"ret", "done"}
                       /\ Same(me.returnValue, Cast(a.type, me.log[i].phrase))
                       /\ \A j \in After(me.log, i) : me.log[j].ev = "unregister"
                 /\ \A i \in Settled(me) :
                       LET reply == me.replies[i] IN
                       (/\ PastBreakout(reply)
                        /\ ToLowerCase(reply.message.content) = ToLowerCase(StopWord))
                         => \E j \in After(me.log, NthReply(me.log, i)) :
                              me.log[j] = Ev("cast", "collect", reply.message.content,
                                             IF IsNull(Cast(a.type, reply.message.content))
                                             THEN 0 ELSE 1)

\* C13 witness: a separate argument whose prompt sets infinite was entered with
\* a seed phrase; the stop word was typed and cast, and the next reply ended
\* the prompt with the number it gave.
C13_Witness ==
    /\ ses[1].pc = "done"
    /\ SeparateWithSeed(arg[1])
    /\ ConfiguredInfinite(arg[1])
    /\ Len(ses[1].replies) = 2
    /\ ToLowerCase(ses[1].replies[1].message.content) = ToLowerCase(StopWord)
    /\ ses[1].result.k = "num"
    /\ ses[1].result.n = 1

\* ------------------------------------------------------------------ C14
\* The position of the first awaitMessages after position k, or the end.
NextAwait(log, k) ==
    LET later == {j \in (k + 1)..Len(log) : log[j].ev = "await"}
    IN IF later = {} THEN Len(log) + 1
       ELSE CHOOSE j \in later : \A i \in later : j <= i

\* What the validation of a reply came to: the positions, between the reply
\* at position r and the next awaitMessages at position a, of a breakout, a
\* cancel, a stop, a cast or a rejection.
VerdictsBetween(log, r, a) ==
    {j \in (r + 1)..(a - 1) :
        /\ log[j].ev \in {"breakout", "cancel", "stop", "cast", "throw"}
        /\ log[j].phase \notin {"start", "retry"}}

\* The same for the i-th reply.
Verdicts(log, i) ==
    LET r == NthReply(log, i) IN VerdictsBetween(log, r, NextAwait(log, r))

\* The verdict agrees with the order breakout, cancel, stop, cast: each check
\* acts only on a reply the checks before it let through.
InOrder(me, reply, verdict) ==
    LET content == reply.message.content
        cancels == ToLowerCase(content) = ToLowerCase(me.promptOptions.cancelWord)
        stops == me.isInfinite /\ ToLowerCase(content) = ToLowerCase(me.promptOptions.stopWord)
    IN CASE verdict.ev = "breakout" -> reply.looksLike = "command"
         [] verdict.ev = "throw" /\ verdict.phase = "parseCommand" -> reply.looksLike = "rejects"
         [] verdict.ev \in {"cancel", "throw"} /\ verdict.phase \in {"", "cancel"} ->
                PastBreakout(reply) /\ cancels
         [] verdict.ev = "stop" -> PastBreakout(reply) /\ ~cancels /\ stops
         [] verdict.ev = "cast" -> PastBreakout(reply) /\ ~cancels /\ ~stops
         [] OTHER -> FALSE

\* C14: at most one awaitMessages is outstanding (every one but the last has
\* been resolved by exactly one reply or timeout before anything else), the
\* replies are taken once each in the order they arrive, and every reply
\* promptOne is through with was validated exactly once, by the checks in the
\* order breakout, cancel, stop, cast, before the next awaitMessages.
C14_OneReplyAtATime ==
    \A s \in Sessions :
        LET me == ses[s]
            log == me.log
            arrived == Indices(log, "reply")
        IN /\ \A i \in 1..Len(log) :
                 /\ log[i].ev = "await" =>
                       IF i = Len(log) THEN me.pc = "await"
                       ELSE log[i + 1].ev \in {"reply", "timeout"}
                 /\ log[i].ev \in {"reply", "timeout"} => (i > 1 /\ log[i - 1].ev = "await")
           /\ me.pc = "await" => (Len(log) > 0 /\ log[Len(log)].ev = "await")
           /\ Cardinality(arrived) = Len(me.replies)
           /\ \A r \in arrived :
                 LET i == Cardinality({j \in arrived : j <= r})
                     reply == me.replies[i]
                     verdicts == VerdictsBetween(log, r, NextAwait(log, r))
                 IN /\ reply.message.id = i
                    /\ log[r].phrase = reply.message.content
                    /\ \A j \in verdicts :
                          log[j].ev # "throw" => log[j].phrase = reply.message.content
                    /\ Cardinality({j \in verdicts : log[j].ev # "throw"}) <= 1
                    /\ IsSettled(me, i) =>
                          /\ verdicts # {}
                          /\ InOrder(me, reply,
                                     log[CHOOSE j \in verdicts : \A k \in verdicts : j <= k])
                    /\ NextAwait(log, r) <= Len(log) =>
                          \E j \in verdicts : log[j].ev \in {"stop", "cast"}

\* C14 witness: three replies were taken in turn, the first two cast and
\* missed, and promptOne is through with the third.
C14_Witness ==
    /\ ses[1].pc = "done"
    /\ Len(ses[1].replies) = 3
    /\ Cardinality(Indices(ses[1].log, "await")) = 3
    /\ \A i \in 1..2 : \E j \in Verdicts(ses[1].log, i) : ses[1].log[j].ev = "cast"
    /\ Verdicts(ses[1].log, 3) # {}

\* ------------------------------------------------------------------ C15
\* A step of session s.
Step(s) ==
    \/ Process(s)
    \/ Collect(s)
    \/ PromptSend(s)
    \/ AwaitReply(s)
    \/ AwaitTimeout(s)
    \/ TimeoutSend(s)
    \/ Breakout(s)
    \/ CheckInput(s)
    \/ CancelSend(s)
    \/ CastInput(s)
    \/ EndedSend(s)
    \/ CollectReturn(s)

\* process has returned or rejected.
Finished(me) == me.pc \in {"done", "threw", "off"}

\* The session waits for its surroundings or is over.
Quiescent(me) == me.pc \in {"await", "done", "threw"}

FromOutside(e) == e.ev \in {"reply", "timeout", "throw"}
IsSend(e) == e.ev = "send"

\* What the session was given: its replies and how each looked to the command
\* parser, and its replies, timeouts and failed sends in their order.
Given(me) ==
    <<[i \in 1..Len(me.replies) |->
          <<me.replies[i].message.content, me.replies[i].looksLike>>],
      SelectSeq(me.log, FromOutside)>>

\* A value as it compares between sessions: the Retry flag carries the reply
\* that looked like a command, a message of the session's own channel and
\* author, and compares by which reply it is and what it says.
Compared(value) ==
    IF value.k = "retry"
    THEN [k |-> "retry", id |-> value.message.id, content |-> value.message.content]
    ELSE value

\* What the session came to: where it is, its retry count, its values, what
\* it returned and the messages it sent.
Outcome(me) ==
    <<me.pc, me.retryCount, me.values, Compared(me.returnValue), Compared(me.result),
      SelectSeq(me.log, IsSend)>>

\* The session is suspended: it waits for the send of its prompt, for a
\* reply, for the command parser, for its cast, or for the send of its last
\* text.
Waits(me) == me.pc \in {"send", "await", "breakout", "cast", "timeout", "cancel", "ended"}

\* A session that waits keeps no other from its next step.
NoBlocking ==
    \A s, t \in Sessions :
        (s # t /\ Waits(ses[s]) /\ ~Finished(ses[t])) => ENABLED Step(t)

\* Given the same, two sessions for the same argument come to the same,
\* however they were interleaved.
OwnInputsOnly ==
    \A s, t \in Sessions :
        (/\ Quiescent(ses[s]) /\ Quiescent(ses[t])
         /\ Given(ses[s]) = Given(ses[t]))
            => Outcome(ses[s]) = Outcome(ses[t])

\* A step of one session leaves the other session and its registry entry alone.
OwnStateOnly ==
    \A s, t \in Sessions :
        (s # t /\ ses'[s] # ses[s]) =>
            /\ ses'[t] = ses[t]
            /\ (Pair(t) \in prompts') <=> (Pair(t) \in prompts)

\* C15: of two prompts on different (channel, author) pairs, one that waits in
\* awaitMessages never keeps the other from stepping or ending, a step of one
\* changes nothing of the other, and what each comes to (result, retry count,
\* values, messages sent) is determined by its own replies, timeouts and
\* failed sends.
C15_SessionsIndependent ==
    /\ []NoBlocking
    /\ []OwnInputsOnly
    /\ [][OwnStateOnly]_vars

\* C15 witness: two users prompt in one channel; the second has ended after
\* two replies, the first of which the command parser was asked about, while
\* the first, whose reply was the cancel word, waits for the send of its
\* cancel text.
C15_Witness ==
    /\ arg[1].channel = arg[2].channel
    /\ ses[1].pc = "cancel"
    /\ Len(ses[1].replies) = 1
    /\ ses[2].pc = "done"
    /\ Len(ses[2].replies) = 2
    /\ ses[2].replies[1].looksLike = "nothing"
    /\ Pair(1) \in prompts
    /\ Pair(2) \notin prompts

\* ------------------------------------------------------------------ C16
\* awaitMessages of session s resolved with a message.
Resolved(s) == ses[s].pc = "await" /\ ses'[s].pc = "breakout"

\* awaitMessages of session s rejected: time was up.
Expired(s) ==
    /\ ses[s].pc = "await"
    /\ Len(ses'[s].log) > Len(ses[s].log)
    /\ ses'[s].log[Len(ses[s].log) + 1].ev = "timeout"

\* C16: while a session waits in awaitMessages, a step changes it only by the
\* timeout or by a message posted in its channel by the author of its command
\* that is not the prompt it has just sent; that message becomes its input
\* and joins its replies, retry count and values staying as they are. No
\* other message changes the session.
C16_OnlyOwnReplies ==
    [][\A s \in Sessions :
         (ses[s].pc = "await" /\ ses'[s] # ses[s]) =>
            \/ Expired(s)
            \/ /\ Resolved(s)
               /\ ses'[s].input.channel = arg[s].channel
               /\ ses'[s].input.author = arg[s].author
               /\ ses[s].sentStart # NoMessage => ses'[s].input.id # ses[s].sentStart.id
               /\ Len(ses'[s].replies) = Len(ses[s].replies) + 1
               /\ ses'[s].replies[Len(ses'[s].replies)].message = ses'[s].input
               /\ ses'[s].retryCount = ses[s].retryCount
               /\ ses'[s].values = ses[s].values]_vars

\* C16 witness: the client handles its own user's command; the session has
\* sent its prompt, whose author is the author of the command, and has taken
\* a reply, while the other session waits.
C16_Witness ==
    /\ arg[1].author = ClientUser
    /\ ses[1].pc = "breakout"
    /\ ses[1].sentStart # NoMessage
    /\ ses[1].sentStart.author = arg[1].author
    /\ ses[1].input.id # ses[1].sentStart.id
    /\ ses[2].pc = "await"

\* ------------------------------------------------------------------ C17
\* The calls of cast that are over and were for a type of this kind.
CastDone(tag) ==
    {cast.runs[i] : i \in {i \in 1..Len(cast.runs) :
                              cast.runs[i].pc = "done" /\ cast.runs[i].type.tag = tag}}

\* What a type gives for the phrase as the type of an argument.
Alone(type, phrase) == CastRun(type, Str(phrase), TRUE).value

\* C17: a union gives what its first type that does not miss gives, evaluates
\* no type after that one, and misses iff every one of its types misses.
C17_UnionFirstMatch ==
    \A run \in CastDone("union") :
        LET types == run.type.types
            hits == {i \in 1..Len(types) : ~IsNull(Alone(types[i], cast.phrase))}
        IN IF hits = {}
           THEN IsNull(run.value)
           ELSE LET first == CHOOSE i \in hits : \A j \in hits : i <= j
                IN /\ Same(run.value, Alone(types[first], cast.phrase))
                   /\ Len(run.calls) = first

\* ------------------------------------------------------------------ C18
\* The aliases of an entry and its canonical element.
Aliases(entry) ==
    IF entry.isArray THEN {entry.items[i] : i \in 1..Len(entry.items)} ELSE {entry.s}
Canonical(entry) == IF entry.isArray THEN entry.items[1] ELSE entry.s

\* C18: an enumeration gives, for a phrase that equals an alias of some entry
\* but for the case of its letters, the canonical first element of the first
\* such entry as the type spells it, and misses for a phrase that equals no
\* alias.
C18_EnumerationCanonical ==
    \A run \in CastDone("array") :
        LET entries == run.type.entries
            matching == {i \in 1..Len(entries) :
                           \E alias \in Aliases(entries[i]) :
                               CaseAlike(alias, cast.phrase)}
        IN IF matching = {}
           THEN IsNull(run.value)
           ELSE LET first == CHOOSE i \in matching : \A j \in matching : i <= j
                IN /\ run.value.k = "str"
                   /\ run.value.s = Canonical(entries[first])

\* C18 witness: the phrase X equals an alias of both groups; the first
\* group's canonical element On is the value.
C18_Witness ==
    \E run \in CastDone("array") :
        /\ Len(run.type.entries) = 2
        /\ cast.phrase = <<"X">>
        /\ \A i \in 1..2 : \E alias \in Aliases(run.type.entries[i]) :
                alias \in {<<"x">>, <<"X">>}
        /\ run.type.entries[1] # run.type.entries[2]
        /\ run.value.k = "str"
        /\ run.value.s = <<"O", "n">>

\* ------------------------------------------------------------------ C19
\* The calls that are over and were for a type made by range.
RangeDone == {run \in CastDone("validate") : run.type.predicate.name = "range"}

\* C19: range gives what its type gives, x, iff the type does not miss and
\* min <= x and x <= max (inclusive) or x < max (otherwise), and misses in
\* every other case; so x = max is accepted iff inclusive, and x = min is
\* accepted whenever min < max.
C19_RangeBounds ==
    \A run \in RangeDone :
        LET x == Alone(run.type.type, cast.phrase)
            min == run.type.predicate.min
            max == run.type.predicate.max
            inclusive == run.type.predicate.inclusive
            n == ToNumber(x)
            within == /\ ~IsNull(x)
                      /\ NotBelow(n, min)
                      /\ inclusive => NotAbove(n, max)
                      /\ ~inclusive => Below(n, max)
        IN /\ IF within THEN Same(run.value, x) ELSE IsNull(run.value)
           /\ (~IsNull(x) /\ n = Num(max) /\ min <= max) =>
                 (~IsNull(run.value) <=> inclusive)
           /\ (~IsNull(x) /\ n = Num(min) /\ min < max) => ~IsNull(run.value)

\* ------------------------------------------------------------------ C20
\* C20: when type1 misses and ignoreVoid is false, compose misses and type2
\* is not invoked; when type1 gives a value, or misses with ignoreVoid true,
\* type2 is invoked once, with what type1 gave as its input, and compose
\* gives what type2 gives.
C20_ComposeFeeds ==
    \A run \in CastDone("compose") :
        LET first == Alone(run.type.type1, cast.phrase)
            calls == run.calls
        IN /\ Len(calls) >= 1
           /\ calls[1].i = 1
           /\ Same(calls[1].value, first)
           /\ IF IsNull(first) /\ ~run.type.ignoreVoid
              THEN IsNull(run.value) /\ Len(calls) = 1
              ELSE ~IsThrown(first) =>
                     /\ Len(calls) = 2
                     /\ calls[2].i = 2
                     /\ Same(calls[2].input, first)
                     /\ Same(calls[2].value, CastRun(run.type.type2, first, TRUE).value)
                     /\ Same(run.value, calls[2].value)

\* ------------------------------------------------------------------ C21
\* The caster functions that give a value or null for every input, null
\* included.
TotalCasters == {"isYes", "orNone"}

\* A type made of enumerations, patterns, named types, total caster functions
\* and the combinators over such types.
RECURSIVE Ordinary(_)
Ordinary(type) ==
    CASE type.tag \in {"array", "regexp", "named"} -> TRUE
      [] type.tag = "fn" -> type.name \in TotalCasters
      [] type.tag \in {"union", "tuple"} ->
            \A i \in 1..Len(type.types) : Ordinary(type.types[i])
      [] type.tag = "validate" -> Ordinary(type.type)
      [] type.tag = "compose" -> Ordinary(type.type1) /\ Ordinary(type.type2)

\* C21: the cast of a phrase by a type made of enumerations, patterns, named types,
\* total caster functions and combinators ends with a value or with null,
\* never with a thrown error.
C21_CastNeverThrows ==
    \A i \in 1..Len(cast.runs) :
        (cast.runs[i].pc = "done" /\ Ordinary(cast.runs[i].type))
            => ~IsThrown(cast.runs[i].value)

\* ------------------------------------------------------------------ C22
\* The places of the trace where a start or retry text was resolved to a text
\* that is not empty and handed to send.
PromptTexts(log) ==
    {i \in 1..Len(log) : log[i].ev \in {"send", "throw"} /\ log[i].phase \in {"start", "retry"}}

\* The entry is of the first turn of promptOne: no awaitMessages came before.
FirstTurn(log, i) == \A j \in 1..(i - 1) : log[j].ev # "await"

\* collect was entered with a seed phrase.
Seeded(me) == me.phrase # <<>>

\* C22 as claimed: in every session the text of the first turn is the start
\* text, the text of every later turn the retry text, with or without a seed
\* phrase, and the start text is sent at most once.
C22_StartOnFirstTurn ==
    \A s \in Sessions :
        LET log == ses[s].log
            texts == PromptTexts(log)
        IN /\ \A i \in texts : (log[i].phase = "start") <=> FirstTurn(log, i)
           /\ \A i, j \in texts : log[i].phase = "start" /\ log[j].phase = "start" => i = j

\* C22: in a session entered without a seed phrase the text of the first turn
\* is the start text and the text of every later turn the retry text; in a
\* session entered with a seed phrase every text is the retry text, that of
\* the first turn included; the start text is sent at most once per session.
C22_StartOnUnseededFirstTurn ==
    \A s \in Sessions :
        LET me == ses[s]
            log == me.log
            texts == PromptTexts(log)
        IN /\ \A i \in texts :
                (log[i].phase = "start") <=> (FirstTurn(log, i) /\ ~Seeded(me))
           /\ \A i, j \in texts : log[i].phase = "start" /\ log[j].phase = "start" => i = j

\* C22 witness: a session entered with a seed phrase has sent the retry text
\* on its first turn and again on a later turn.
C22_Witness ==
    LET me == ses[1]
        log == me.log
    IN /\ Seeded(me)
       /\ \E i, j \in PromptTexts(log) :
            /\ i < j
            /\ FirstTurn(log, i)
            /\ log[i].ev = "send" /\ log[i].phase = "retry"
            /\ log[j].ev = "send" /\ log[j].phase = "retry"

\* ------------------------------------------------------------------ C23
\* The entry is a cast of a reply that missed.
IsMiss(e) == e.ev = "cast" /\ e.phase = "collect" /\ e.n = 0

\* The values the list holds after the successful cast at i.
Held(log, i) == Cardinality({j \in Successes(log) : j <= i})

\* C23: in an infinite prompt a successful cast that leaves the list shorter
\* than the limit is followed at once by awaitMessages with retryCount 1, no
\* message in between; a start or retry text after the first turn comes
\* directly after a miss or after a stop word typed while the list was empty,
\* and is the retry text; every turn with retryCount above 1 that reaches
\* awaitMessages has sent the retry text just before, when one is configured.
C23_SilentAfterAccepted ==
    \A s \in Sessions :
        LET me == ses[s]
            log == me.log
            hits == Successes(log)
        IN me.isInfinite =>
            /\ \A i \in hits :
                 i < Len(log) =>
                    IF LessThan(Held(log, i), me.promptOptions.limit)
                    THEN log[i + 1].ev = "await" /\ log[i + 1].n = 1
                    ELSE log[i + 1].ev = "unregister"
            /\ \A i \in PromptTexts(log) :
                 ~FirstTurn(log, i) =>
                    /\ log[i].phase = "retry"
                    /\ \/ IsMiss(log[i - 1])
                       \/ log[i - 1].ev = "stop" /\ \A j \in hits : j > i
            /\ \A k \in Indices(log, "await") :
                 (log[k].n > 1 /\ ConfiguredText(arg[s], "retry") # "") =>
                    /\ log[k - 1].ev = "send"
                    /\ log[k - 1].phase = "retry"
                    /\ log[k - 1].n = log[k].n

\* C23 witness: an infinite prompt with texts configured took a value, waited
\* for the next reply without a message, that reply missed, and the retry text
\* was sent before the prompt waited again.
C23_Witness ==
    LET me == ses[1]
        log == me.log
    IN /\ me.isInfinite
       /\ ConfiguredText(arg[1], "start") # ""
       /\ \E i \in Successes(log) :
            /\ Len(log) >= i + 5
            /\ log[i + 1].ev = "await" /\ log[i + 1].n = 1
            /\ log[i + 2].ev = "reply"
            /\ IsMiss(log[i + 3])
            /\ log[i + 4].ev = "send" /\ log[i + 4].phase = "retry"
            /\ log[i + 5].ev = "await" /\ log[i + 5].n = 2

\* ------------------------------------------------------------------ C24
\* The text of the last reply before position i of the trace.
LastReplyBefore(log, i) ==
    LET before == {j \in Indices(log, "reply") : j < i}
    IN log[Max(before)].phrase

\* C24: the phrase handed to the supplier of a start or retry text is the
\* seed phrase on the first turn (the empty string when there is none) and
\* the text of the most recent reply on every later turn, in infinite mode
\* as well.
C24_PhraseIsLastInput ==
    \A s \in Sessions :
        LET me == ses[s]
            log == me.log
        IN \A i \in PromptTexts(log) :
             log[i].phrase = IF FirstTurn(log, i) THEN me.phrase
                             ELSE LastReplyBefore(log, i)

\* ------------------------------------------------------------------ C25
\* The optional field of the configuration collect merges: that of the last
\* layer that has the field, the argument's own layer last.
MergedOptional(a) ==
    IF ~IsNone(a.prompt) /\ "optional" \in DOMAIN a.prompt THEN a.prompt.optional
    ELSE IF ~IsNone(a.commandPrompt) /\ "optional" \in DOMAIN a.commandPrompt
    THEN a.commandPrompt.optional
    ELSE IF ~IsNone(a.handlerPrompt) /\ "optional" \in DOMAIN a.handlerPrompt
    THEN a.handlerPrompt.optional
    ELSE FALSE

\* process returned the default without a cast.
ShortCircuited(me) ==
    me.pc = "done" /\ HasEv(me.log, "default") /\ ~HasEv(me.log, "cast")

\* C25: for an empty phrase process returns the default without a cast iff
\* the merged prompt configuration, in which the argument's own layer wins,
\* marks the argument optional; an own prompt with optional false is not
\* short-circuited by a default layer with optional true.
C25_OptionalAgreesWithMerge ==
    \A s \in Sessions :
        LET me == ses[s]
            a == arg[s]
        IN (me.pc \notin {"process", "off"} /\ Blank(a.phrase)) =>
            (ShortCircuited(me) <=> MergedOptional(a))

\* ------------------------------------------------------------------ C26
\* The replies promptOne took since the last value it accepted, or since the
\* start when it accepted none.
SinceAccepted(log) ==
    LET hits == Successes(log)
        from == IF hits = {} THEN 0 ELSE Max(hits)
    IN {i \in Indices(log, "reply") : i > from}

\* C26: at every turn of a prompt retryCount is at most retries + 1, and
\* the prompt takes at most retries + 1 replies in a row that add no value,
\* in infinite mode as well.
C26_RetryCounterBounds ==
    \A s \in Sessions :
        LET me == ses[s]
        IN Entered(me) =>
            /\ me.retryCount <= me.promptOptions.retries + 1
            /\ Cardinality(SinceAccepted(me.log)) <= me.promptOptions.retries + 1

\* ------------------------------------------------------------------ C27
\* promptOne resolved with Cancel or Retry.
EndedWithFlag(me) ==
    Entered(me) /\ me.pc \in {"ret", "done"} /\ me.returnValue.k \in {"cancel", "retry"}

\* C27: when collect ends with Cancel or Retry, args is what it was when
\* collect was entered: it has no entry written by collect, and no list of the
\* values accumulated so far.
C27_ArgsUntouchedOnCancel ==
    \A s \in Sessions : EndedWithFlag(ses[s]) => ses[s].args = PriorResults

\* ------------------------------------------------------------------ permissions
RECURSIVE Pow2(_)
Pow2(p) == IF p = 0 THEN 1 ELSE 2 * Pow2(p - 1)

\* x << p, for the shifts of the table: none reaches the sign bit.
ShiftLeft(x, p) == x * Pow2(p)

\* One key of PERMISSIONS and its value.
Permission(name, shift) == [name |-> name, bit |-> ShiftLeft(1, shift)]

\* The table PERMISSIONS, in the order Object.keys gives its keys: that of
\* the object literal.
PERMISSIONS ==
    << Permission("CREATE_INSTANT_INVITE", 0),
       Permission("KICK_MEMBERS", 1),
       Permission("BAN_MEMBERS", 2),
       Permission("ADMINISTRATOR", 3),
       Permission("MANAGE_CHANNELS", 4),
       Permission("MANAGE_GUILD", 5),
       Permission("ADD_REACTIONS", 6),
       Permission("READ_MESSAGES", 10),
       Permission("SEND_MESSAGES", 11),
       Permission("SEND_TTS_MESSAGES", 12),
       Permission("MANAGE_MESSAGES", 13),
       Permission("EMBED_LINKS", 14),
       Permission("ATTACH_FILES", 15),
       Permission("READ_MESSAGE_HISTORY", 16),
       Permission("MENTION_EVERYONE", 17),
       Permission("EXTERNAL_EMOJIS", 18),
       Permission("CONNECT", 20),
       Permission("SPEAK", 21),
       Permission("MUTE_MEMBERS", 22),
       Permission("DEAFEN_MEMBERS", 23),
       Permission("MOVE_MEMBERS", 24),
       Permission("USE_VAD", 25),
       Permission("CHANGE_NICKNAME", 26),
       Permission("MANAGE_NICKNAMES", 27),
       Permission("MANAGE_ROLES_OR_PERMISSIONS", 28),
       Permission("MANAGE_WEBHOOKS", 29),
       Permission("MANAGE_EMOJIS", 30) >>

\* a & b on numbers from 0 to 2^31 - 1, bit by bit
RECURSIVE BitAnd(_, _)
BitAnd(a, b) ==
    IF a = 0 \/ b = 0 THEN 0
    ELSE (a % 2) * (b % 2) + 2 * BitAnd(a \div 2, b \div 2)

\* Mutant of Granted: a permission counts when the number is at least its bit.
GrantedFrom(number, bit) == number >= bit

\* if (number & PERMISSIONS[key])
Granted(number, bit) == BitAnd(number, bit) # 0

\* Object.keys(PERMISSIONS).forEach(key => ...) from the key at i on, with
\* what was pushed so far.
RECURSIVE ResolveFrom(_, _, _)
ResolveFrom(number, i, resolved) ==
    IF i > Len(PERMISSIONS) THEN resolved
    ELSE ResolveFrom(number, i + 1,
                     IF Granted(number, PERMISSIONS[i].bit)
                     THEN Append(resolved, PERMISSIONS[i].name)
                     ELSE resolved)

resolvePermissionNumber(number) == ResolveFrom(number, 1, <<>>)

\* The bit positions of a number that is not negative and fits 32-bit
\* signed arithmetic.
Positions == 0..30

\* The value of the bit at each position.
ValueAt == [p \in Positions |-> Pow2(p)]

\* Bit p of the number is set.
HasBit(number, p) == (number \div ValueAt[p]) % 2 = 1

\* The number with exactly these bits set.
RECURSIVE WithBits(_)
WithBits(P) ==
    IF P = {} THEN 0
    ELSE LET p == CHOOSE q \in P : TRUE IN ValueAt[p] + WithBits(P \ {p})

\* The numbers with at most k bits set.
RECURSIVE NumbersWith(_)
NumbersWith(k) ==
    IF k = 0 THEN {0}
    ELSE LET fewer == NumbersWith(k - 1)
         IN fewer \cup UNION {{n + ValueAt[p] : p \in {q \in Positions : ~HasBit(n, q)}} :
                                n \in fewer}

\* The numbers resolvePermissionNumber is called with: every number with up
\* to MaxSetBits bits set (0 among them), and the number with all bits set.
PermissionNumbers == NumbersWith(MaxSetBits) \cup {WithBits(Positions)}

InitPerm ==
    /\ arg = [s \in Sessions |-> OffArgument @@ Place(s, s)]
    /\ ses = [s \in Sessions |-> Idle("off")]
    /\ prompts = {}
    /\ cast = NoCast
    /\ \E number \in PermissionNumbers :
         perm = [pc |-> "call", number |-> number, resolved |-> <<>>]

\* resolvePermissionNumber(number) runs to its end.
ResolveCall ==
    /\ perm.pc = "call"
    /\ perm' = [perm EXCEPT !.pc = "done", !.resolved = resolvePermissionNumber(perm.number)]
    /\ UNCHANGED <<arg, ses, prompts, cast>>

NextPerm == ResolveCall

SpecPerm == InitPerm /\ [][NextPerm]_vars

\* ------------------------------------------------------------------ C28
\* The position of the bit of each key of the table.
PositionAt ==
    [i \in 1..Len(PERMISSIONS) |-> CHOOSE p \in Positions : ValueAt[p] = PERMISSIONS[i].bit]

PositionOf(i) == PositionAt[i]

\* The places of the table whose key is `name`.
PlacesOf(name) == {i \in 1..Len(PERMISSIONS) : PERMISSIONS[i].name = name}

\* The positions the table defines a permission for.
DefinedPositions == {PositionOf(i) : i \in 1..Len(PERMISSIONS)}

\* C28: resolvePermissionNumber(number) gives the names of the permissions
\* whose bit is set in number, each once and in the order of the table; it
\* gives none for 0, and the bits of the names it gives add up to number
\* without the bits the table defines no permission for.
C28_NamesOfBitsSet ==
    perm.pc = "done" =>
        LET number == perm.number
            resolved == perm.resolved
            place == [k \in 1..Len(resolved) |-> CHOOSE i \in PlacesOf(resolved[k]) : TRUE]
        IN /\ \A i \in 1..Len(PERMISSIONS) :
                (\E k \in 1..Len(resolved) : resolved[k] = PERMISSIONS[i].name)
                    <=> HasBit(number, PositionOf(i))
           /\ \A k \in 1..Len(resolved) : PlacesOf(resolved[k]) # {}
           /\ \A j, k \in 1..Len(resolved) : j < k => place[j] < place[k]
           /\ number = 0 => resolved = <<>>
           /\ WithBits({PositionOf(place[k]) : k \in 1..Len(resolved)})
                = WithBits({p \in DefinedPositions : HasBit(number, p)})

\* C28 witness: the number with all its bits set, those the table has no
\* permission for among them, gave every name of the table, from the first
\* key to the last.
C28_Witness ==
    /\ perm.pc = "done"
    /\ perm.number = WithBits(Positions)
    /\ Len(perm.resolved) = Len(PERMISSIONS)
    /\ perm.resolved[1] = "CREATE_INSTANT_INVITE"
    /\ perm.resolved[2] = "KICK_MEMBERS"
    /\ perm.resolved[Len(PERMISSIONS)] = "MANAGE_EMOJIS"

====
